---- MODULE Spec2Model ----
(***************************************************************************)
(* dmm-logger: the sampling run loop app::run (src/src/app.rs), with the   *)
(* scheduler sleep_until, the timed device read instrument::read and the   *)
(* progress bar MyProgressBar::update.                                     *)
(*                                                                         *)
(* Time is the monotonic clock (std::time::Instant) in milliseconds.  The  *)
(* clock advances in steps of Quantum ms at any point where the program    *)
(* can be delayed before it looks at the clock again: while a device read  *)
(* is in flight, while the thread sleeps (a sleep lasts at least the       *)
(* requested duration, possibly longer) and between statements.  Durations *)
(* are whole milliseconds, so Duration::as_millis() truncates nothing.     *)
(*                                                                         *)
(* output is the sequence of records app::run hands to the output sink     *)
(* (CsvFile::write_reading, CsvFile::write_comment), in call order; the    *)
(* sink may report any write as failed, which aborts the run.              *)
(*                                                                         *)
(* Besides the run loop (Spec) the module holds smaller                    *)
(* specifications over variables of their own, each leaving the others'    *)
(* variables at rest:                                                      *)
(*   SpecWallClock       run while the wall clock is set back and forth    *)
(*   SpecSleepUntil      sleep_until alone (app.rs and main.rs), 10 ms     *)
(*                       clock                                             *)
(*   SpecFetchError      Device::fetch_error on bounded answer lines       *)
(*   SpecIdentification  Device::identification on bounded answer lines    *)
(*   SpecSession         the calls of instrument.rs on one connection      *)
(*   SpecMain            main of main.rs, from the parsed command line to  *)
(*                       its return                                        *)
(*   SpecCli             Cli::validate, Cli::sample_period and             *)
(*                       Cli::num_samples on a parsed command line         *)
(*   SpecAnyCount        main of main.rs or run of app.rs, with any sample *)
(*                       count                                             *)
(***************************************************************************)
EXTENDS Integers, Sequences, FiniteSets, TLC

(* ------------------------------ bounds --------------------------------- *)

\* step of the clock, in ms
Quantum == 50
\* sample periods tried: Quantum, 2*Quantum, ..., MaxPeriodSteps*Quantum
MaxPeriodSteps == 5
\* largest explicit sample count (-n COUNT); also caps the ticks of an
\* unbounded run
MaxSamples == 3
\* the clock stops advancing here
MaxTime == 300

\* step of the clock of the lone sleep_until, in ms
SliceQuantum == 10
\* targets tried for the lone sleep_until: 0, SliceQuantum, ..., MaxUntilSteps*SliceQuantum
MaxUntilSteps == 30
\* the clock of the lone sleep_until stops advancing here
MaxSliceTime == 320

\* longest line of arbitrary characters tried as an answer to SYST:ERR?
MaxErrLineLen == 3
\* longest line tried as an answer to *IDN?
MaxIdnLineLen == 6

\* the wall clock shows one of the times 0..MaxWall
MaxWall == 2

\* most reads of one session
MaxReads == 2

(* ------------------------- program constants --------------------------- *)

\* u32::MAX, the sample count of a run without -n.  TLC's integers are 32-bit
\* signed, so the largest of them stands for 2^32 - 1: a finite count far above
\* every tick index the model reaches
U32_MAX == 2147483647
\* sleep_until: length of one sleep slice, ms
SLICE_MILLIS == 100
\* sleep_until: remaining time from which a full slice is slept, ms
SLICE_THRESHOLD_MILLIS == 150

\* number of significant decimal digits from which a value may exceed i32
I32_DIGITS == 10

\* --interval, default_value = "1.0": the interval when --rate is given (the
\* two options exclude each other), seconds as ms
DefaultInterval == 1000

\* Option<u32>::None for the sample count, a value outside u32
None == 0 - 1

Periods == {Quantum * i : i \in 1..MaxPeriodSteps}

VARIABLES
    sample_period,      \* run's argument: Duration, ms
    num_samples,        \* run's argument: u32
    drop_slow_samples,  \* run's argument: bool
    bar,                \* run's argument: MyProgressBar(Some(_)) = TRUE, MyProgressBar(None) = FALSE
    pc,                 \* position of the thread inside run
    now,                \* the monotonic clock
    term,               \* the AtomicBool set by the signal hooks
    sequence,           \* the tick index: 0 for the first read, then the for loop's variable
    started,            \* capture instant of tick 0
    planed,             \* planned instant of the current tick
    moment,             \* capture instant of the current read
    latency,            \* latency of the current read
    wakeAt,             \* earliest instant at which the current thread::sleep returns
    output,             \* records handed to the output sink
    barPos,             \* position of the progress bar: number of bar.inc(1)
    result,             \* what run returned: "running", "Ok", "Err"
    stop,               \* why run returned
    readLog,            \* history: one entry per device read issued
    tickLog,            \* history: one entry per loop iteration begun (ticks >= 1)
    scheduled,          \* history: the ticks sleep_until was called for
    sig                 \* history: the thread's situation when the flag was set

VARIABLES
    wall,               \* the wall clock (chrono::Local::now), in its own units
    datetime            \* wall-clock timestamp of the current read

\* the function sleep_until on its own, called with any target and flag
VARIABLES
    su_src,             \* which source is run: "app.rs" or "main.rs"
    until,              \* sleep_until's argument: the target Instant, ms
    su_term,            \* sleep_until's argument: the AtomicBool
    su_now,             \* the monotonic clock
    su_pc,              \* position inside sleep_until, or what it returned
    su_remaining,       \* until - now of the current loop iteration
    slept,              \* duration passed to the current thread::sleep
    su_wake             \* earliest instant at which that sleep returns

\* the parsing device calls of scpi.rs on their own
VARIABLES
    response,           \* the line the device answers, a sequence of characters
    fetched,            \* what Device::fetch_error returned
    ident               \* what Device::identification returned

\* a session on one connection: the calls of instrument.rs, in order
VARIABLES
    conn,               \* scpi::Device: "Open", or "Closed" once close has consumed it
    configs,            \* configure's argument: the configuration command lines
    unconfigs,          \* unconfigure's argument
    reset,              \* configure's argument
    call,               \* the function of instrument.rs called last
    d_pc,               \* position inside that call; "idle": it returned Ok; "failed": Err
    commands,           \* batch_commands' argument: the lines to send
    context,            \* batch_commands' argument: "Configuring" or "Un-configuring"
    cmd_i,              \* batch_commands: index of the next command to send
    ret,                \* what the last call returned
    reads_done,         \* number of successful calls of read
    wire,               \* history: the lines written to the socket, each with the
                        \* number of answers outstanding when it was written
    heard,              \* history: the lines read from the socket
    owed,               \* answers the device has still to deliver
    base                \* history: lengths of wire and heard when the call began

\* main.rs: fn main of the single-file program, from the parsed command line
\* to its return
VARIABLES
    cli,                \* Cli::parse(): interval (f64 seconds, here in ms), rate
                        \* (Option<f64>, Hz: <<>> or <<f>>), num_samples
                        \* (Option<u32>), conf and nplc (a line is to be sent)
    m_pc,               \* position of the thread inside main
    dmm,                \* the ScpiDevice: "none" before connect, "Open", "Closed"
    m_sample_period,    \* let sample_period, ms
    m_num_samples,      \* let num_samples
    m_term,             \* the AtomicBool set by the signal hooks
    m_sequence,         \* the tick index
    m_ops,              \* history: the device operations called, each with the
                        \* state of the connection it was called on
    m_log,              \* history: the sequence numbers of the lines logged
    m_result            \* what main returned

\* cli.rs: Cli::validate and the two getters, called on a parsed command line
\* (the variable cli)
VARIABLES
    validated,          \* what Cli::validate returned
    c_period,           \* what Cli::sample_period returned, or that it panicked
    c_count             \* what Cli::num_samples returned

wallVars == <<wall, datetime>>

cliVars == <<validated, c_period, c_count>>

mainVars == <<cli, m_pc, dmm, m_sample_period, m_num_samples, m_term, m_sequence,
              m_ops, m_log, m_result>>

runVars == <<sample_period, num_samples, drop_slow_samples, bar, pc, now, term,
             sequence, started, planed, moment, latency, wakeAt, output, barPos,
             result, stop, readLog, tickLog, scheduled, sig, wallVars>>

sleepVars == <<su_src, until, su_term, su_now, su_pc, su_remaining, slept, su_wake>>

parseVars == <<response, fetched, ident>>

setupVars == <<configs, unconfigs, reset>>

sessionVars == <<conn, setupVars, call, d_pc, commands, context, cmd_i, ret,
                 reads_done, wire, heard, owed, base>>

vars == <<runVars, sleepVars, parseVars, sessionVars, mainVars, cliVars>>

\* what a step of run leaves alone
outsideRun == <<sleepVars, parseVars, sessionVars, mainVars, cliVars>>
\* what a step of the lone sleep_until leaves alone
outsideSleepUntil == <<runVars, parseVars, sessionVars, mainVars, cliVars>>
\* what a step of a lone parsing call leaves alone
outsideParse == <<runVars, sleepVars, sessionVars, mainVars, cliVars>>
\* what a step of a session leaves alone
outsideSession == <<runVars, sleepVars, parseVars, mainVars, cliVars>>
\* what a step of main leaves alone
outsideMain == <<runVars, sleepVars, parseVars, sessionVars, cliVars>>
\* what a call on the Cli leaves alone
outsideCli == <<runVars, sleepVars, parseVars, sessionVars, mainVars>>

args == <<sample_period, num_samples, drop_slow_samples, bar>>

(* ------------------------------ helpers -------------------------------- *)

\* Cli::num_samples: self.num_samples.unwrap_or(u32::MAX)
CliNumSamples(opt) == IF opt = None THEN U32_MAX ELSE opt

\* Instant - Instant (Instant::duration_since saturates at zero)
Since(later, earlier) == IF later >= earlier THEN later - earlier ELSE 0

\* a schedule relative to the instant the iteration begins, as sleep(period)
\* in every iteration would give
PlannedFromNow(start, k, period) == now + period

\* started + sequence * sample_period
Planned(start, k, period) == start + k * period

\* a tick exactly on its planned instant not taken as overdue
TooLateStrict(drop, t, target) == drop /\ t > target

\* an overdue tick skipped in either mode
TooLateAnyMode(drop, t, target) == t >= target

\* drop_slow_samples && now >= planed
TooLate(drop, t, target) == drop /\ t >= target

\* a latency equal to the period not taken as too high
LatencyTooHighStrict(drop, lat, period) == drop /\ lat > period

\* drop_slow_samples && latency >= sample_period
LatencyTooHigh(drop, lat, period) == drop /\ lat >= period

\* one sleep for the whole remaining time
SleepWhole(remaining) == remaining

\* always one full slice, however little time remains
SleepFullSlice(remaining) == SLICE_MILLIS

\* the duration handed to thread::sleep by sleep_until
SleepFor(remaining) ==
    IF remaining >= SLICE_THRESHOLD_MILLIS THEN SLICE_MILLIS ELSE remaining

\* samples numbered by the count of reads taken, not by the tick index
ReadingNumberedByReads(k, m, d, l) ==
    [kind |-> "sample", seq |-> Len(readLog) - 1, moment |-> m, delay |-> d,
     latency |-> l]

\* output.write_reading(sequence, datetime, moment, delay, latency, reading)
Reading(k, m, d, l) ==
    [kind |-> "sample", seq |-> k, moment |-> m, delay |-> d, latency |-> l]

\* output.write_comment("{sequence}: Too late! {delay}")
TooLateComment(k, d) == [kind |-> "too_late", seq |-> k, delay |-> d]

\* output.write_comment("{sequence}: Latency too high! ({latency})")
LatencyComment(k, l) == [kind |-> "latency_too_high", seq |-> k, latency |-> l]

\* MyProgressBar::update: bar.inc(1) when a bar is shown
BarUpdate(shown, pos) == IF shown THEN pos + 1 ELSE pos

\* the answer to the read in flight, noted in the history
Answered(log, how, lat) ==
    [log EXCEPT ![Len(log)] = [@ EXCEPT !.outcome = how, !.latency = lat]]

\* an inclusive range 1..=num_samples
InRangeInclusive(k, n) == k <= n

\* for sequence in 1..num_samples: the range holds k
InRange(k, n) == k < n

\* return from run
Return(res, why) ==
    /\ pc' = "done"
    /\ result' = res
    /\ stop' = why

(* ------------------------------- Init ---------------------------------- *)

\* run is entered: nothing done yet
RunEntry ==
    /\ pc = "hooks"
    /\ now = 0
    /\ term = FALSE
    /\ sequence = 0
    /\ started = 0
    /\ planed = 0
    /\ moment = 0
    /\ latency = 0
    /\ wakeAt = 0
    /\ output = <<>>
    /\ barPos = 0
    /\ result = "running"
    /\ stop = "none"
    /\ readLog = <<>>
    /\ tickLog = <<>>
    /\ scheduled = {}
    /\ sig = [at |-> 0, pc |-> "hooks", planed |-> 0, reads |-> 0, output |-> <<>>]

\* the lone sleep_until is not called
SleepUntilAtRest ==
    /\ su_src = "app.rs"
    /\ until = 0
    /\ su_term = FALSE
    /\ su_now = 0
    /\ su_pc = "rest"
    /\ su_remaining = 0
    /\ slept = 0
    /\ su_wake = 0

\* no parsing call is made
ParseAtRest ==
    /\ response = <<>>
    /\ fetched = [kind |-> "rest", code |-> 0, text |-> <<>>]
    /\ ident = [kind |-> "rest", manufacturer |-> <<>>, model |-> <<>>,
                serial |-> <<>>, firmware |-> <<>>]

\* what a call returns: Ok(..), or Err with the cause, the message put in
\* front of it and, for an error the device reported, its code and text
Returns(kind, why, msg, code, text) ==
    [kind |-> kind, why |-> why, msg |-> msg, code |-> code, text |-> text]

\* no session is open
SessionAtRest ==
    /\ conn = "Closed"
    /\ configs = <<>>
    /\ unconfigs = <<>>
    /\ reset = FALSE
    /\ call = "none"
    /\ d_pc = "rest"
    /\ commands = <<>>
    /\ context = ""
    /\ cmd_i = 0
    /\ ret = Returns("none", "", "", 0, <<>>)
    /\ reads_done = 0
    /\ wire = <<>>
    /\ heard = <<>>
    /\ owed = 0
    /\ base = [wire |-> 0, heard |-> 0]

\* no call is made on the Cli
CliAtRest ==
    /\ validated = [kind |-> "rest", why |-> ""]
    /\ c_period = [kind |-> "rest", ms |-> 0]
    /\ c_count = [kind |-> "rest", n |-> 0]

\* main has not begun
MainIdle ==
    /\ m_pc = "rest"
    /\ dmm = "none"
    /\ m_sample_period = 0
    /\ m_num_samples = 0
    /\ m_term = FALSE
    /\ m_sequence = 0
    /\ m_ops = <<>>
    /\ m_log = <<>>
    /\ m_result = [kind |-> "rest", why |-> ""]

\* main is not run
MainAtRest ==
    /\ cli = [interval |-> DefaultInterval, rate |-> <<>>, num_samples |-> None,
              conf |-> FALSE, nplc |-> FALSE]
    /\ MainIdle

\* run is not called
RunAtRest ==
    /\ sample_period = Quantum
    /\ num_samples = 1
    /\ drop_slow_samples = FALSE
    /\ bar = FALSE
    /\ RunEntry
    /\ wall = 0
    /\ datetime = 0

Init ==
    /\ sample_period \in Periods
    /\ num_samples \in {CliNumSamples(n) : n \in (1..MaxSamples) \cup {None}}
    /\ drop_slow_samples \in BOOLEAN
    /\ bar \in BOOLEAN
    /\ RunEntry
    /\ wall = 0
    /\ datetime = 0
    /\ SleepUntilAtRest
    /\ ParseAtRest
    /\ SessionAtRest
    /\ MainAtRest
    /\ CliAtRest

(* ------------------------------ actions -------------------------------- *)

\* app.rs:20  let term = install_signal_hooks()?;   (registration succeeds)
InstallSignalHooks ==
    /\ pc = "hooks"
    /\ pc' = "read"
    /\ UNCHANGED <<outsideRun, wallVars, args, now, term, sequence, started, planed, moment, latency,
                   wakeAt, output, barPos, result, stop, readLog, tickLog, scheduled, sig>>

\* app.rs:20  signal_hook::flag::register returned an error: run returns it
InstallSignalHooksFail ==
    /\ pc = "hooks"
    /\ Return("Err", "hooks")
    /\ UNCHANGED <<outsideRun, wallVars, args, now, term, sequence, started, planed, moment, latency,
                   wakeAt, output, barPos, readLog, tickLog, scheduled, sig>>

\* instrument::read, lines 77-81: take the wall-clock timestamp, then the
\* capture instant, send READ?
ReadBegin ==
    /\ pc = "read"
    /\ datetime' = wall
    /\ moment' = now
    /\ readLog' = Append(readLog, [seq |-> sequence, at |-> now, sched |-> scheduled,
                                   flag |-> term, outcome |-> "inflight",
                                   latency |-> 0])
    /\ pc' = "inflight"
    /\ UNCHANGED <<outsideRun, wall, args, now, term, sequence, started, planed, latency, wakeAt,
                   output, barPos, result, stop, tickLog, scheduled, sig>>

\* the anchor taken when the first answer arrives, not at the capture instant
ReadOkAnchoredAtAnswer ==
    /\ pc = "inflight"
    /\ latency' = Since(now, moment)
    /\ started' = IF sequence = 0 THEN now ELSE started
    /\ readLog' = Answered(readLog, "ok", Since(now, moment))
    /\ pc' = "emit"
    /\ UNCHANGED <<outsideRun, wallVars, args, now, term, sequence, planed, moment, wakeAt, output,
                   barPos, result, stop, tickLog, scheduled, sig>>

\* the latency taken as the difference of two wall-clock timestamps
ReadOkByWallClock ==
    /\ pc = "inflight"
    /\ latency' = Since(wall, datetime)
    /\ started' = IF sequence = 0 THEN moment ELSE started
    /\ readLog' = Answered(readLog, "ok", Since(wall, datetime))
    /\ pc' = "emit"
    /\ UNCHANGED <<outsideRun, wallVars, args, now, term, sequence, planed, moment, wakeAt, output,
                   barPos, result, stop, tickLog, scheduled, sig>>

\* instrument::read, lines 84-86: the response parsed as f64
ReadOk ==
    /\ pc = "inflight"
    /\ latency' = Since(now, moment)
    /\ started' = IF sequence = 0 THEN moment ELSE started
    /\ readLog' = Answered(readLog, "ok", Since(now, moment))
    /\ pc' = "emit"
    /\ UNCHANGED <<outsideRun, wallVars, args, now, term, sequence, planed, moment, wakeAt, output,
                   barPos, result, stop, tickLog, scheduled, sig>>

\* a failed read skipped: the loop goes on with the next tick
ReadFailSkipped ==
    /\ pc = "inflight"
    /\ readLog' = Answered(readLog, "failed", 0)
    /\ sequence' = sequence + 1
    /\ pc' = "loop"
    /\ UNCHANGED <<outsideRun, wallVars, args, now, term, started, planed, moment, latency, wakeAt,
                   output, barPos, result, stop, tickLog, scheduled, sig>>

\* instrument::read, line 82: dmm.read() failed (timeout, I/O error, invalid
\* UTF-8, not a number); run returns the error
ReadFail ==
    /\ pc = "inflight"
    /\ Return("Err", "read")
    /\ readLog' = Answered(readLog, "failed", 0)
    /\ UNCHANGED <<outsideRun, wallVars, args, now, term, sequence, started, planed, moment, latency,
                   wakeAt, output, barPos, tickLog, scheduled, sig>>

\* app.rs:24-30: the record of tick 0, then bar.update
FirstRecord ==
    /\ pc = "emit"
    /\ sequence = 0
    /\ output' = Append(output,
                    IF LatencyTooHigh(drop_slow_samples, latency, sample_period)
                    THEN LatencyComment(0, latency)
                    ELSE Reading(0, 0, 0, latency))
    /\ \E written \in BOOLEAN :
          IF written
          THEN /\ barPos' = BarUpdate(bar, barPos)
               /\ sequence' = 1
               /\ pc' = "loop"
               /\ UNCHANGED <<result, stop>>
          ELSE /\ Return("Err", "write")
               /\ UNCHANGED <<barPos, sequence>>
    /\ UNCHANGED <<outsideRun, wallVars, args, now, term, started, planed, moment, latency, wakeAt,
                   readLog, tickLog, scheduled, sig>>

\* app.rs:42-61: the record of tick sequence >= 1, then bar.update
LoopRecord ==
    /\ pc = "emit"
    /\ sequence >= 1
    /\ output' = Append(output,
                    IF LatencyTooHigh(drop_slow_samples, latency, sample_period)
                    THEN LatencyComment(sequence, latency)
                    ELSE Reading(sequence, Since(moment, started),
                                 Since(moment, planed), latency))
    /\ \E written \in BOOLEAN :
          IF written
          THEN /\ barPos' = BarUpdate(bar, barPos)
               /\ sequence' = sequence + 1
               /\ pc' = "loop"
               /\ UNCHANGED <<result, stop>>
          ELSE /\ Return("Err", "write")
               /\ UNCHANGED <<barPos, sequence>>
    /\ UNCHANGED <<outsideRun, wallVars, args, now, term, started, planed, moment, latency, wakeAt,
                   readLog, tickLog, scheduled, sig>>

\* app.rs:32-39: the head of one iteration of  for sequence in 1..num_samples:
\* the planned instant, the clock, then either the "too late" comment of an
\* overdue tick in drop-slow-samples mode or the call of sleep_until.
\* (sequence < MaxSamples bounds the ticks of a run without -n.)
LoopHead ==
    /\ pc = "loop"
    /\ InRange(sequence, num_samples)
    /\ sequence < MaxSamples
    /\ planed' = Planned(started, sequence, sample_period)
    /\ tickLog' = Append(tickLog, [seq |-> sequence, planed |-> planed',
                                   overdue |-> now >= planed',
                                   overrun |-> Since(now, planed')])
    /\ IF TooLate(drop_slow_samples, now, planed')
       THEN /\ output' = Append(output, TooLateComment(sequence, Since(now, planed')))
            /\ \E written \in BOOLEAN :
                  IF written
                  THEN /\ sequence' = sequence + 1
                       /\ pc' = "loop"
                       /\ UNCHANGED <<result, stop>>
                  ELSE /\ Return("Err", "write")
                       /\ UNCHANGED sequence
            /\ UNCHANGED scheduled
       ELSE /\ scheduled' = scheduled \cup {sequence}
            /\ pc' = "sleep_until"
            /\ UNCHANGED <<output, sequence, result, stop>>
    /\ UNCHANGED <<outsideRun, wallVars, args, now, term, started, moment, latency, wakeAt, barPos,
                   readLog, sig>>

\* app.rs:32,67: the range 1..num_samples is exhausted, run returns Ok(())
LoopExit ==
    /\ pc = "loop"
    /\ ~InRange(sequence, num_samples)
    /\ Return("Ok", "exhausted")
    /\ UNCHANGED <<outsideRun, wallVars, args, now, term, sequence, started, planed, moment, latency,
                   wakeAt, output, barPos, readLog, tickLog, scheduled, sig>>

\* the cancelled wait reported as an error
SleepUntilCancelledAsError ==
    /\ pc = "sleep_until"
    /\ term
    /\ Return("Err", "cancelled")
    /\ UNCHANGED <<outsideRun, wallVars, args, now, term, sequence, started, planed, moment, latency,
                   wakeAt, output, barPos, readLog, tickLog, scheduled, sig>>

\* app.rs:82-84, 62-63, 67: sleep_until reads the flag as set and returns
\* false; run breaks out of the loop and returns Ok(())
SleepUntilCancelled ==
    /\ pc = "sleep_until"
    /\ term
    /\ Return("Ok", "cancelled")
    /\ UNCHANGED <<outsideRun, wallVars, args, now, term, sequence, started, planed, moment, latency,
                   wakeAt, output, barPos, readLog, tickLog, scheduled, sig>>

\* returns true whenever the flag is clear, the target reached or not
SleepUntilFireEarly ==
    /\ pc = "sleep_until"
    /\ ~term
    /\ pc' = "read"
    /\ UNCHANGED <<outsideRun, wallVars, args, now, term, sequence, started, planed, moment, latency,
                   wakeAt, output, barPos, result, stop, readLog, tickLog, scheduled, sig>>

\* returns true one slice ahead of the target
SleepUntilFireWithinSlice ==
    /\ pc = "sleep_until"
    /\ ~term
    /\ now + SLICE_MILLIS >= planed
    /\ pc' = "read"
    /\ UNCHANGED <<outsideRun, wallVars, args, now, term, sequence, started, planed, moment, latency,
                   wakeAt, output, barPos, result, stop, readLog, tickLog, scheduled, sig>>

\* app.rs:86-89: the flag is clear and the target is reached: return true
SleepUntilFire ==
    /\ pc = "sleep_until"
    /\ ~term
    /\ now >= planed
    /\ pc' = "read"
    /\ UNCHANGED <<outsideRun, wallVars, args, now, term, sequence, started, planed, moment, latency,
                   wakeAt, output, barPos, result, stop, readLog, tickLog, scheduled, sig>>

\* app.rs:91-96: the flag is clear and the target is ahead: sleep one slice
SleepUntilSleep ==
    /\ pc = "sleep_until"
    /\ ~term
    /\ now < planed
    /\ wakeAt' = now + SleepFor(Since(planed, now))
    /\ pc' = "sleeping"
    /\ UNCHANGED <<outsideRun, wallVars, args, now, term, sequence, started, planed, moment, latency,
                   output, barPos, result, stop, readLog, tickLog, scheduled, sig>>

\* std::thread::sleep returns, not before the requested duration has elapsed
Wake ==
    /\ pc = "sleeping"
    /\ now >= wakeAt
    /\ pc' = "sleep_until"
    /\ UNCHANGED <<outsideRun, wallVars, args, now, term, sequence, started, planed, moment, latency,
                   wakeAt, output, barPos, result, stop, readLog, tickLog, scheduled, sig>>

\* the monotonic clock advances while the thread reads, sleeps or is delayed.
\* Enabled wherever the thread will look at the clock again (Instant::now,
\* Instant::elapsed); elsewhere the delay is the same as one taken at the
\* next such place
Tick ==
    /\ \/ pc \in {"read", "inflight", "sleep_until", "sleeping"}
       \/ pc = "loop" /\ InRange(sequence, num_samples) /\ sequence < MaxSamples
    /\ now + Quantum <= MaxTime
    /\ now' = now + Quantum
    /\ UNCHANGED <<outsideRun, wallVars, args, pc, term, sequence, started, planed, moment, latency,
                   wakeAt, output, barPos, result, stop, readLog, tickLog, scheduled, sig>>

\* a termination signal arrives: the registered hook stores true in the flag
Signal ==
    /\ pc \notin {"hooks", "done"}
    /\ ~term
    /\ term' = TRUE
    /\ sig' = [at |-> now, pc |-> pc, planed |-> planed,
               reads |-> Len(readLog), output |-> output]
    /\ UNCHANGED <<outsideRun, wallVars, args, pc, now, sequence, started, planed, moment, latency,
                   wakeAt, output, barPos, result, stop, readLog, tickLog, scheduled>>

Next ==
    \/ InstallSignalHooks
    \/ InstallSignalHooksFail
    \/ ReadBegin
    \/ ReadOk
    \/ ReadFail
    \/ FirstRecord
    \/ LoopRecord
    \/ LoopHead
    \/ LoopExit
    \/ SleepUntilCancelled
    \/ SleepUntilFire
    \/ SleepUntilSleep
    \/ Wake
    \/ Tick
    \/ Signal

Spec == Init /\ [][Next]_vars

(* ------------------- run under a jumping wall clock -------------------- *)
(* chrono::Local::now is the system's wall clock: it may be set forward or *)
(* backward at any time, independently of the monotonic clock.             *)

WallTimes == 0..MaxWall

InitWallClock ==
    /\ sample_period \in {Quantum, 2 * Quantum}
    /\ num_samples = 2
    /\ drop_slow_samples \in BOOLEAN
    /\ bar = FALSE
    /\ RunEntry
    /\ wall \in WallTimes
    /\ datetime = 0
    /\ SleepUntilAtRest
    /\ ParseAtRest
    /\ SessionAtRest
    /\ MainAtRest
    /\ CliAtRest

\* the wall clock is set to another time.  Enabled before and during a read,
\* where the program will look at it or has looked at it
WallClockJump ==
    /\ pc \in {"read", "inflight"}
    /\ \E t \in WallTimes \ {wall} : wall' = t
    /\ UNCHANGED <<outsideRun, datetime, args, pc, now, term, sequence, started, planed,
                   moment, latency, wakeAt, output, barPos, result, stop, readLog,
                   tickLog, scheduled, sig>>

NextWallClock ==
    \/ Next
    \/ WallClockJump

SpecWallClock == InitWallClock /\ [][NextWallClock]_vars

(* ----------------------- sleep_until on its own ------------------------ *)
(* The scheduler function by itself, in both sources that define it:       *)
(* app.rs:78-98 and the older main.rs:268-285.  Its clock advances in      *)
(* steps of SliceQuantum ms, fine enough to put the remaining time between *)
(* one slice and the threshold.                                            *)

\* sleeps one slice first, for any remaining time of a slice or more
SleepForMainSliceFirst(rem) ==
    IF rem >= SLICE_MILLIS THEN SLICE_MILLIS ELSE rem

\* main.rs:276-281: the duration of the next thread::sleep
SleepForMain(rem) ==
    IF rem > SLICE_THRESHOLD_MILLIS THEN SLICE_MILLIS ELSE rem

InitSleepUntil ==
    /\ su_src \in {"app.rs", "main.rs"}
    /\ until \in {SliceQuantum * i : i \in 0..MaxUntilSteps}
    /\ su_term \in BOOLEAN
    /\ su_now = 0
    /\ su_pc = "test"
    /\ su_remaining = 0
    /\ slept = 0
    /\ su_wake = 0
    /\ RunAtRest
    /\ ParseAtRest
    /\ SessionAtRest
    /\ MainAtRest
    /\ CliAtRest

\* app.rs:82-84, main.rs:271 and 284: the flag is set: return false
SliceCancelled ==
    /\ su_pc = "test"
    /\ su_term
    /\ su_pc' = "false"
    /\ UNCHANGED <<outsideSleepUntil, su_src, until, su_term, su_now, su_remaining,
                   slept, su_wake>>

\* the time is tested before the flag: true once the target is reached
SliceFireTimeFirst ==
    /\ su_pc = "test"
    /\ su_now >= until
    /\ su_pc' = "true"
    /\ UNCHANGED <<outsideSleepUntil, su_src, until, su_term, su_now, su_remaining,
                   slept, su_wake>>

\* app.rs:86-89, main.rs:272-275: the target is reached: return true
SliceFire ==
    /\ su_pc = "test"
    /\ ~su_term
    /\ su_now >= until
    /\ su_pc' = "true"
    /\ UNCHANGED <<outsideSleepUntil, su_src, until, su_term, su_now, su_remaining,
                   slept, su_wake>>

\* app.rs:91-96, main.rs:276-281: the target is ahead: sleep
SliceSleep ==
    /\ su_pc = "test"
    /\ ~su_term
    /\ su_now < until
    /\ su_remaining' = Since(until, su_now)
    /\ slept' = IF su_src = "app.rs" THEN SleepFor(su_remaining')
                                     ELSE SleepForMain(su_remaining')
    /\ su_wake' = su_now + slept'
    /\ su_pc' = "sleeping"
    /\ UNCHANGED <<outsideSleepUntil, su_src, until, su_term, su_now>>

\* std::thread::sleep returns, not before the requested duration has elapsed
SliceWake ==
    /\ su_pc = "sleeping"
    /\ su_now >= su_wake
    /\ su_pc' = "test"
    /\ UNCHANGED <<outsideSleepUntil, su_src, until, su_term, su_now, su_remaining,
                   slept, su_wake>>

\* the monotonic clock advances
SliceTick ==
    /\ su_pc \in {"test", "sleeping"}
    /\ su_now + SliceQuantum <= MaxSliceTime
    /\ su_now' = su_now + SliceQuantum
    /\ UNCHANGED <<outsideSleepUntil, su_src, until, su_term, su_pc, su_remaining,
                   slept, su_wake>>

\* a termination signal arrives during the call
SliceSignal ==
    /\ su_pc \in {"test", "sleeping"}
    /\ ~su_term
    /\ su_term' = TRUE
    /\ UNCHANGED <<outsideSleepUntil, su_src, until, su_now, su_pc, su_remaining,
                   slept, su_wake>>

NextSleepUntil ==
    \/ SliceCancelled
    \/ SliceFire
    \/ SliceSleep
    \/ SliceWake
    \/ SliceTick
    \/ SliceSignal

SpecSleepUntil == InitSleepUntil /\ [][NextSleepUntil]_vars

(* ------------------- scpi.rs: the parsing device calls ------------------ *)
(* A line is a sequence of one-character strings.  Device::receive has     *)
(* already removed the line terminator.                                    *)

DecimalDigits == <<"0", "1", "2", "3", "4", "5", "6", "7", "8", "9">>

\* regex class \d, on the characters of the model
IsDigit(c) == \E i \in 1..10 : DecimalDigits[i] = c
\* regex class \s and char::is_whitespace, on the characters of the model
IsSpace(c) == c = " "
DigitValue(c) == (CHOOSE i \in 1..10 : DecimalDigits[i] = c) - 1

\* first position from i on that holds no digit (Len(s) + 1 if none): \d*
PastDigits(s, i) ==
    CHOOSE j \in i..(Len(s) + 1) :
        /\ \A k \in i..(j - 1) : IsDigit(s[k])
        /\ j = Len(s) + 1 \/ ~IsDigit(s[j])

\* first position from i on that holds no whitespace: \s*
PastSpaces(s, i) ==
    CHOOSE j \in i..(Len(s) + 1) :
        /\ \A k \in i..(j - 1) : IsSpace(s[k])
        /\ j = Len(s) + 1 \/ ~IsSpace(s[j])

\* str::trim: the line without its leading and trailing whitespace
RECURSIVE Trim(_)
Trim(s) ==
    IF s = <<>> THEN <<>>
    ELSE IF IsSpace(s[1]) THEN Trim(Tail(s))
    ELSE IF IsSpace(s[Len(s)]) THEN Trim(SubSeq(s, 1, Len(s) - 1))
    ELSE s

\* str::split(','): the fields between the commas, at least one
RECURSIVE Split(_)
Split(s) ==
    IF \A i \in 1..Len(s) : s[i] # ","
    THEN <<s>>
    ELSE LET c == CHOOSE i \in 1..Len(s) :
                      s[i] = "," /\ \A k \in 1..(i - 1) : s[k] # ","
         IN  <<SubSeq(s, 1, c - 1)>> \o Split(SubSeq(s, c + 1, Len(s)))

\* the value of a string of decimal digits
RECURSIVE Decimal(_)
Decimal(ds) ==
    IF ds = <<>> THEN 0
    ELSE 10 * Decimal(SubSeq(ds, 1, Len(ds) - 1)) + DigitValue(ds[Len(ds)])

\* a string of decimal digits without its leading zeros
RECURSIVE Significant(_)
Significant(ds) ==
    IF ds # <<>> /\ ds[1] = "0" THEN Significant(Tail(ds)) ELSE ds

\* str::parse::<i32>: an optional sign and at least one digit, nothing else,
\* and a value that fits 32 bits.  Ten or more significant digits are taken as
\* out of range: the inputs of the model hold no ten-digit value that fits
ParseI32(t) ==
    LET signed == t # <<>> /\ t[1] \in {"-", "+"}
        ds == IF signed THEN Tail(t) ELSE t
    IN  IF ds = <<>> \/ \E i \in 1..Len(ds) : ~IsDigit(ds[i])
        THEN [ok |-> FALSE, value |-> 0]
        ELSE IF Len(Significant(ds)) >= I32_DIGITS
        THEN [ok |-> FALSE, value |-> 0]
        ELSE [ok |-> TRUE,
              value |-> IF signed /\ t[1] = "-" THEN 0 - Decimal(ds) ELSE Decimal(ds)]

\* scpi.rs:119  ^([-+]?\d+\s*)\s*,\s*"(.+)"\s*$   The first group takes the
\* sign, the digits and all the whitespace that follows them; the text runs
\* from the opening quote to the last quote of the line, which only
\* whitespace may follow
ErrorRegex(s) ==
    LET a == IF s # <<>> /\ s[1] \in {"-", "+"} THEN 2 ELSE 1
        b == PastDigits(s, a)
        c == PastSpaces(s, b)
        d == IF c <= Len(s) THEN PastSpaces(s, c + 1) ELSE c
        quotes == {i \in 1..Len(s) : s[i] = "\""}
        q == IF quotes = {} THEN 0
             ELSE CHOOSE i \in quotes : \A j \in quotes : j <= i
    IN  IF /\ b > a
           /\ c <= Len(s) /\ s[c] = ","
           /\ d <= Len(s) /\ s[d] = "\""
           /\ q >= d + 2
           /\ \A k \in (q + 1)..Len(s) : IsSpace(s[k])
        THEN [matched |-> TRUE, one |-> SubSeq(s, 1, c - 1), two |-> SubSeq(s, d + 1, q - 1)]
        ELSE [matched |-> FALSE, one |-> <<>>, two |-> <<>>]

\* any code above zero is an error, a negative one is not
Positive(code) == code > 0

\* scpi.rs:123  if code != 0
NonZero(code) == code # 0

\* scpi.rs:115-132 after the request: the return value of fetch_error
FetchError(resp) ==
    LET caps == ErrorRegex(resp) IN
    IF ~caps.matched
    THEN [kind |-> "Err", code |-> 0, text |-> <<"n", "o", " ", "m", "a", "t", "c", "h">>]
    ELSE LET code == ParseI32(caps.one) IN
         IF ~code.ok
         THEN [kind |-> "Err", code |-> 0, text |-> <<"p", "a", "r", "s", "e">>]
         ELSE IF NonZero(code.value)
         THEN [kind |-> "Some", code |-> code.value, text |-> caps.two]
         ELSE [kind |-> "None", code |-> 0, text |-> <<>>]

\* maps the first four fields of any response with four fields or more
AtLeastFour(n) == n >= 4

\* scpi.rs:92  if fields.len() == 4
ExactlyFour(n) == n = 4

\* scpi.rs:90-112 after the request: the return value of identification
Identification(resp) ==
    LET fields == Split(resp) IN
    IF ExactlyFour(Len(fields))
    THEN [kind |-> "Ok", manufacturer |-> Trim(fields[1]), model |-> Trim(fields[2]),
          serial |-> Trim(fields[3]), firmware |-> Trim(fields[4])]
    ELSE [kind |-> "Ok", manufacturer |-> <<"?">>, model |-> Trim(resp),
          serial |-> <<"?">>, firmware |-> <<"?">>]

\* all lines of at most n characters of the set chars
RECURSIVE Lines(_, _)
Lines(chars, n) ==
    IF n = 0 THEN {<<>>}
    ELSE LET shorter == Lines(chars, n - 1)
         IN  shorter \cup {Append(l, c) : l \in shorter, c \in chars}

\* answers to SYST:ERR? tried: every short line, and the lines put together
\* from the parts of the expected shape, well-formed or not
ErrChars == {"0", "1", "-", " ", ",", "\"", "a"}
ErrLead == {<<>>, <<" ">>}
ErrSign == {<<>>, <<"-">>, <<"+">>}
ErrDigits == {<<>>, <<"0">>, <<"1">>, <<"0", "7">>,
              <<"9", "9", "9", "9", "9", "9", "9", "9", "9", "9">>}
ErrGap == {<<>>, <<" ">>}
ErrComma == {<<>>, <<",">>}
ErrQuote == {<<>>, <<"\"">>}
ErrText == {<<>>, <<"a">>, <<"a", "\"", " ", "a">>, <<" ">>}
ErrTrail == {<<>>, <<" ">>, <<"a">>}
ErrResponses ==
    Lines(ErrChars, MaxErrLineLen)
    \cup {l \o s \o d \o g1 \o c \o g2 \o q1 \o t \o q2 \o e :
             l \in ErrLead, s \in ErrSign, d \in ErrDigits, g1 \in ErrGap,
             c \in ErrComma, g2 \in ErrGap, q1 \in ErrQuote, t \in ErrText,
             q2 \in ErrQuote, e \in ErrTrail}

\* answers to *IDN? tried
IdnChars == {"a", "b", " ", ","}
IdnResponses == Lines(IdnChars, MaxIdnLineLen)

InitFetchError ==
    /\ response \in ErrResponses
    /\ fetched = [kind |-> "called", code |-> 0, text |-> <<>>]
    /\ ident = [kind |-> "rest", manufacturer |-> <<>>, model |-> <<>>,
                serial |-> <<>>, firmware |-> <<>>]
    /\ RunAtRest
    /\ SleepUntilAtRest
    /\ SessionAtRest
    /\ MainAtRest
    /\ CliAtRest

\* scpi.rs:118  self.request("SYST:ERR?")?  fails: send or receive error
FetchErrorRequestFails ==
    /\ fetched.kind = "called"
    /\ fetched' = [kind |-> "Err", code |-> 0, text |-> <<"i", "o">>]
    /\ UNCHANGED <<outsideParse, response, ident>>

\* scpi.rs:118-131: the request is answered and the answer is parsed
FetchErrorParses ==
    /\ fetched.kind = "called"
    /\ fetched' = FetchError(response)
    /\ UNCHANGED <<outsideParse, response, ident>>

NextFetchError ==
    \/ FetchErrorRequestFails
    \/ FetchErrorParses

SpecFetchError == InitFetchError /\ [][NextFetchError]_vars

InitIdentification ==
    /\ response \in IdnResponses
    /\ fetched = [kind |-> "rest", code |-> 0, text |-> <<>>]
    /\ ident = [kind |-> "called", manufacturer |-> <<>>, model |-> <<>>,
                serial |-> <<>>, firmware |-> <<>>]
    /\ RunAtRest
    /\ SleepUntilAtRest
    /\ SessionAtRest
    /\ MainAtRest
    /\ CliAtRest

\* scpi.rs:88  self.request("*IDN?")?  fails: send or receive error
IdentificationRequestFails ==
    /\ ident.kind = "called"
    /\ ident' = [kind |-> "Err", manufacturer |-> <<>>, model |-> <<>>,
                 serial |-> <<>>, firmware |-> <<>>]
    /\ UNCHANGED <<outsideParse, response, fetched>>

\* scpi.rs:88-112: the request is answered and the answer is taken apart
IdentificationParses ==
    /\ ident.kind = "called"
    /\ ident' = Identification(response)
    /\ UNCHANGED <<outsideParse, response, fetched>>

NextIdentification ==
    \/ IdentificationRequestFails
    \/ IdentificationParses

SpecIdentification == InitIdentification /\ [][NextIdentification]_vars

(* ------------------ instrument.rs: a session, call by call -------------- *)
(* One connection, opened by instrument::connect, then identification,     *)
(* configure, any number of reads, unconfigure and disconnect, each        *)
(* started once the call before it has returned Ok.  A call that returns   *)
(* Err ends the session: every caller in src/ passes the error on with ?.  *)
(* Device::send writes one line; it may fail, and then nothing is taken as *)
(* delivered.  Device::receive reads one answer; it may fail (time-out,    *)
(* closed socket, no UTF-8), and then the answer is still outstanding.     *)
(* The device answers the lines that end in "?" and no others.             *)

Queries == {"*IDN?", "SYST:ERR?", "*OPC?", "READ?"}

\* cli.rs:299-345 configuration_commands: none, one or several lines
ConfigLists ==
    {<<>>, <<"CONF:VOLT:DC 10">>, <<"CONF:VOLT:DC 10", "VOLT:DC:NPLC 1", "DISP OFF">>}

\* cli.rs:347-363 unconfiguration_commands
UnconfigLists == {<<>>, <<"DISP ON", "SYST:BEEP">>}

\* answers to SYST:ERR? tried: no error, two errors, an answer whose integer
\* is followed by a blank, an answer of another shape
ErrAnswers ==
    {<<"0", ",", "\"", "a", "\"">>,
     <<"-", "1", ",", "\"", "a", "\"">>,
     <<"7", ",", " ", "\"", "b", "\"">>,
     <<"1", " ", ",", "\"", "a", "\"">>,
     <<"a">>}

\* answers to *OPC? tried
OpcAnswers == {<<"1">>, <<"0">>, <<"1", " ">>}

\* answers to *IDN? tried
IdnAnswers == {<<"a", ",", "b", ",", "a", ",", "b">>, <<"a">>}

\* answers to READ? tried
ReadAnswers == {<<"1">>, <<"a">>}

\* scpi.rs:84  str::parse::<f64>, on the answers of the model: digits only
ParsesAsF64(t) == t # <<>> /\ \A i \in 1..Len(t) : IsDigit(t[i])

OkReturn == Returns("Ok", "", "", 0, <<>>)

\* the status is cleared, the device never reset
ClearCommandNoReset(rst) == "*CLS"

\* instrument.rs:22-26: the first line configure sends
ClearCommand(rst) == IF rst THEN "*RST" ELSE "*CLS"

\* the error query follows every single command
AfterCommandAsk(i, n) == "batch_err_send"

\* instrument.rs:55-60: after command i of n comes the next command, after
\* the last one the error query
AfterCommand(i, n) == IF i < n THEN "batch" ELSE "batch_err_send"

\* instrument.rs:54  !commands.is_empty()
NonEmpty(cmds) == cmds # <<>>

\* any answer that begins with 1 taken as complete
OperationCompleteByPrefix(r) == r # <<>> /\ r[1] = "1"

\* instrument.rs:42  result != "1" is false
OperationComplete(r) == r = <<"1">>

\* scpi.rs:43-53 send succeeds: the line is on the wire
SendOk(line, next) ==
    /\ wire' = Append(wire, [line |-> line, owed |-> owed])
    /\ owed' = owed + (IF line \in Queries THEN 1 ELSE 0)
    /\ d_pc' = next
    /\ UNCHANGED <<heard, ret>>

\* the call returns Err without having read an answer
Failed(why, msg) ==
    /\ ret' = Returns("Err", why, msg, 0, <<>>)
    /\ d_pc' = "failed"
    /\ UNCHANGED <<wire, heard, owed>>

\* scpi.rs:55-76 receive succeeds with the line r
ReceiveOk(r) ==
    /\ owed > 0
    /\ heard' = Append(heard, r)
    /\ owed' = owed - 1
    /\ UNCHANGED wire

\* the order of a session: a function is called on an open connection once
\* the call before it, one of those in after, has returned Ok
MayCall(after) ==
    /\ conn = "Open"
    /\ d_pc = "idle"
    /\ call \in after

\* a new call begins
Begin(fn, first) ==
    /\ call' = fn
    /\ d_pc' = first
    /\ ret' = Returns("running", "", "", 0, <<>>)
    /\ base' = [wire |-> Len(wire), heard |-> Len(heard)]

InitSession ==
    /\ conn = "Open"
    /\ configs \in ConfigLists
    /\ unconfigs \in UnconfigLists
    /\ reset \in BOOLEAN
    /\ call = "connect"
    /\ d_pc = "idle"
    /\ commands = <<>>
    /\ context = ""
    /\ cmd_i = 0
    /\ ret = OkReturn
    /\ reads_done = 0
    /\ wire = <<>>
    /\ heard = <<>>
    /\ owed = 0
    /\ base = [wire |-> 0, heard |-> 0]
    /\ RunAtRest
    /\ SleepUntilAtRest
    /\ ParseAtRest
    /\ MainAtRest
    /\ CliAtRest

\* instrument.rs:16-19 identification is called
CallIdentification ==
    /\ MayCall({"connect"})
    /\ Begin("identification", "idn_send")
    /\ UNCHANGED <<outsideSession, conn, setupVars, commands, context, cmd_i,
                   reads_done, wire, heard, owed>>

\* scpi.rs:88, 79: send("*IDN?")
IdentificationSend ==
    /\ d_pc = "idn_send"
    /\ \/ SendOk("*IDN?", "idn_recv")
       \/ Failed("send", "Requesting instrument identification failed")
    /\ UNCHANGED <<outsideSession, conn, setupVars, call, commands, context, cmd_i,
                   reads_done, base>>

\* scpi.rs:88, 80, 90-112: receive, then take the answer apart
IdentificationReceive ==
    /\ d_pc = "idn_recv"
    /\ \/ Failed("receive", "Requesting instrument identification failed")
       \/ \E r \in IdnAnswers :
             /\ ReceiveOk(r)
             /\ ret' = Returns(Identification(r).kind, "", "", 0, Identification(r).model)
             /\ d_pc' = "idle"
    /\ UNCHANGED <<outsideSession, conn, setupVars, call, commands, context, cmd_i,
                   reads_done, base>>

\* instrument.rs:21 configure is called
CallConfigure ==
    /\ MayCall({"identification"})
    /\ Begin("configure", "clear")
    /\ UNCHANGED <<outsideSession, conn, setupVars, commands, context, cmd_i,
                   reads_done, wire, heard, owed>>

\* instrument.rs:22-26: send("*RST") or send("*CLS")
ConfigureClear ==
    /\ d_pc = "clear"
    /\ \/ SendOk(ClearCommand(reset), "clear_err_send")
       \/ Failed("send", "")
    /\ UNCHANGED <<outsideSession, conn, setupVars, call, commands, context, cmd_i,
                   reads_done, base>>

\* instrument.rs:28, scpi.rs:118, 79: fetch_error sends SYST:ERR?
ConfigureFetchErrorSend ==
    /\ d_pc = "clear_err_send"
    /\ \/ SendOk("SYST:ERR?", "clear_err_recv")
       \/ Failed("send", "")
    /\ UNCHANGED <<outsideSession, conn, setupVars, call, commands, context, cmd_i,
                   reads_done, base>>

\* instrument.rs:28-36, 54: fetch_error receives and parses; an error of the
\* device makes configure bail out, none lets it call batch_commands, which
\* goes to its loop if there are commands and returns at once if not
ConfigureFetchErrorReceive ==
    /\ d_pc = "clear_err_recv"
    /\ \/ /\ Failed("receive", "")
          /\ UNCHANGED <<commands, context, cmd_i>>
       \/ \E r \in ErrAnswers :
             /\ ReceiveOk(r)
             /\ CASE FetchError(r).kind = "Err" ->
                       /\ ret' = Returns("Err", "parse", "", 0, <<>>)
                       /\ d_pc' = "failed"
                       /\ UNCHANGED <<commands, context, cmd_i>>
                  [] FetchError(r).kind = "Some" ->
                       /\ ret' = Returns("Err", "device", "Clearing error state failed",
                                         FetchError(r).code, FetchError(r).text)
                       /\ d_pc' = "failed"
                       /\ UNCHANGED <<commands, context, cmd_i>>
                  [] FetchError(r).kind = "None" ->
                       /\ commands' = configs
                       /\ context' = "Configuring"
                       /\ cmd_i' = 1
                       /\ d_pc' = IF NonEmpty(configs) THEN "batch" ELSE "opc_send"
                       /\ UNCHANGED ret
    /\ UNCHANGED <<outsideSession, conn, setupVars, call, reads_done, base>>

\* instrument.rs:55-58: send the next command of the batch
BatchSend ==
    /\ d_pc = "batch"
    /\ \/ /\ SendOk(commands[cmd_i], AfterCommand(cmd_i, Len(commands)))
          /\ cmd_i' = cmd_i + 1
       \/ /\ Failed("send", context \o " instrument failed")
          /\ UNCHANGED cmd_i
    /\ UNCHANGED <<outsideSession, conn, setupVars, call, commands, context,
                   reads_done, base>>

\* the error query is sent and its answer not waited for
BatchFetchErrorSendNoWait ==
    /\ d_pc = "batch_err_send"
    /\ \/ SendOk("SYST:ERR?", IF call = "configure" THEN "opc_send" ELSE "idle")
       \/ Failed("send", "")
    /\ UNCHANGED <<outsideSession, conn, setupVars, call, commands, context, cmd_i,
                   reads_done, base>>

\* instrument.rs:60, scpi.rs:118, 79: fetch_error sends SYST:ERR?
BatchFetchErrorSend ==
    /\ d_pc = "batch_err_send"
    /\ \/ SendOk("SYST:ERR?", "batch_err_recv")
       \/ Failed("send", "")
    /\ UNCHANGED <<outsideSession, conn, setupVars, call, commands, context, cmd_i,
                   reads_done, base>>

\* instrument.rs:60-70: fetch_error receives and parses; batch_commands bails
\* out on an error of the device and returns Ok otherwise: to configure,
\* which goes on with *OPC?, or from unconfigure
BatchFetchErrorReceive ==
    /\ d_pc = "batch_err_recv"
    /\ \/ Failed("receive", "")
       \/ \E r \in ErrAnswers :
             /\ ReceiveOk(r)
             /\ CASE FetchError(r).kind = "Err" ->
                       /\ ret' = Returns("Err", "parse", "", 0, <<>>)
                       /\ d_pc' = "failed"
                  [] FetchError(r).kind = "Some" ->
                       /\ ret' = Returns("Err", "device", context \o " instrument failed",
                                         FetchError(r).code, FetchError(r).text)
                       /\ d_pc' = "failed"
                  [] FetchError(r).kind = "None" /\ call = "configure" ->
                       /\ d_pc' = "opc_send"
                       /\ UNCHANGED ret
                  [] FetchError(r).kind = "None" /\ call # "configure" ->
                       /\ d_pc' = "idle"
                       /\ ret' = OkReturn
    /\ UNCHANGED <<outsideSession, conn, setupVars, call, commands, context, cmd_i,
                   reads_done, base>>

\* instrument.rs:38-40, scpi.rs:79: request("*OPC?") sends
OpcSend ==
    /\ d_pc = "opc_send"
    /\ \/ SendOk("*OPC?", "opc_recv")
       \/ Failed("send", "Waiting for operation condition on instrument failed")
    /\ UNCHANGED <<outsideSession, conn, setupVars, call, commands, context, cmd_i,
                   reads_done, base>>

\* instrument.rs:38-46, scpi.rs:80: request("*OPC?") receives; anything but
\* "1" makes configure bail out
OpcReceive ==
    /\ d_pc = "opc_recv"
    /\ \/ Failed("receive", "Waiting for operation condition on instrument failed")
       \/ \E r \in OpcAnswers :
             /\ ReceiveOk(r)
             /\ IF OperationComplete(r)
                THEN /\ ret' = OkReturn
                     /\ d_pc' = "idle"
                ELSE /\ ret' = Returns("Err", "opc",
                           "Unexpected result from instrument for operation condition",
                           0, r)
                     /\ d_pc' = "failed"
    /\ UNCHANGED <<outsideSession, conn, setupVars, call, commands, context, cmd_i,
                   reads_done, base>>

\* instrument.rs:73-78 read is called, any number of times
CallRead ==
    /\ MayCall({"configure", "read"})
    /\ reads_done < MaxReads
    /\ Begin("read", "read_send")
    /\ UNCHANGED <<outsideSession, conn, setupVars, commands, context, cmd_i,
                   reads_done, wire, heard, owed>>

\* instrument.rs:80-82, scpi.rs:84, 79: send("READ?")
ReadSend ==
    /\ d_pc = "read_send"
    /\ \/ SendOk("READ?", "read_recv")
       \/ Failed("send", "Reading measurement from instrument failed")
    /\ UNCHANGED <<outsideSession, conn, setupVars, call, commands, context, cmd_i,
                   reads_done, base>>

\* instrument.rs:80-86, scpi.rs:84, 80: receive, then parse the value
ReadReceive ==
    /\ d_pc = "read_recv"
    /\ \/ /\ Failed("receive", "Reading measurement from instrument failed")
          /\ UNCHANGED reads_done
       \/ \E r \in ReadAnswers :
             /\ ReceiveOk(r)
             /\ IF ParsesAsF64(r)
                THEN /\ ret' = OkReturn
                     /\ d_pc' = "idle"
                     /\ reads_done' = reads_done + 1
                ELSE /\ ret' = Returns("Err", "parse",
                                       "Reading measurement from instrument failed", 0, r)
                     /\ d_pc' = "failed"
                     /\ UNCHANGED reads_done
    /\ UNCHANGED <<outsideSession, conn, setupVars, call, commands, context, cmd_i, base>>

\* instrument.rs:49-51, 54: unconfigure calls batch_commands, which goes to
\* its loop if there are commands and returns Ok at once if not
CallUnconfigure ==
    /\ MayCall({"configure", "read"})
    /\ call' = "unconfigure"
    /\ base' = [wire |-> Len(wire), heard |-> Len(heard)]
    /\ commands' = unconfigs
    /\ context' = "Un-configuring"
    /\ cmd_i' = 1
    /\ IF NonEmpty(unconfigs)
       THEN /\ d_pc' = "batch"
            /\ ret' = Returns("running", "", "", 0, <<>>)
       ELSE /\ d_pc' = "idle"
            /\ ret' = OkReturn
    /\ UNCHANGED <<outsideSession, conn, setupVars, reads_done, wire, heard, owed>>

\* instrument.rs:12-14, scpi.rs:34-37: disconnect consumes the device; the
\* shutdown of the socket may fail
CallDisconnect ==
    /\ MayCall({"unconfigure"})
    /\ call' = "disconnect"
    /\ conn' = "Closed"
    /\ base' = [wire |-> Len(wire), heard |-> Len(heard)]
    /\ \/ d_pc' = "idle" /\ ret' = OkReturn
       \/ /\ d_pc' = "failed"
          /\ ret' = Returns("Err", "shutdown", "Disconnecting from instrument failed", 0, <<>>)
    /\ UNCHANGED <<outsideSession, setupVars, commands, context, cmd_i, reads_done,
                   wire, heard, owed>>

NextSession ==
    \/ CallIdentification
    \/ IdentificationSend
    \/ IdentificationReceive
    \/ CallConfigure
    \/ ConfigureClear
    \/ ConfigureFetchErrorSend
    \/ ConfigureFetchErrorReceive
    \/ BatchSend
    \/ BatchFetchErrorSend
    \/ BatchFetchErrorReceive
    \/ OpcSend
    \/ OpcReceive
    \/ CallRead
    \/ ReadSend
    \/ ReadReceive
    \/ CallUnconfigure
    \/ CallDisconnect

SpecSession == InitSession /\ [][NextSession]_vars

(* ------------------- main.rs: main of the single-file program ----------- *)
(* Cli::parse has returned; what the instrument answers and what the       *)
(* socket does is free.  The wait inside sleep_until is left out here: the *)
(* call returns true when it reads the flag as clear and false when it     *)
(* reads it as set.                                                        *)

\* values of --interval tried, seconds as ms
Intervals == {0 - 1000, 0, 1000}
\* values of --rate tried, Hz
Rates == {<<>>, <<0 - 2>>, <<0>>, <<2>>}
\* values of -n tried
Counts == {None, 0, 1, 2}

\* main.rs:175, cli.rs:242  rate.map(|f| 1.0 / f).unwrap_or(interval)
PeriodOf(c) == IF c.rate = <<>> THEN c.interval ELSE 1000 \div c.rate[1]

\* Duration::from_secs_f64 panics if secs is negative
DurationFromSecs(x) == [ok |-> x >= 0, ms |-> x]

\* the error return shuts the connection down first
MainBailClosing(why) ==
    /\ m_pc' = "done"
    /\ m_result' = [kind |-> "Err", why |-> why]
    /\ dmm' = IF dmm = "Open" THEN "Closed" ELSE dmm

\* bail! or ? inside main: main returns the error; the device, if there is
\* one, goes out of scope without a call of close
MainBail(why) ==
    /\ m_pc' = "done"
    /\ m_result' = [kind |-> "Err", why |-> why]
    /\ UNCHANGED dmm

\* a device operation is called on the connection as it is
MainCalls(op) == m_ops' = Append(m_ops, [op |-> op, dmm |-> dmm])

\* main goes on at next
MainGoes(next) ==
    /\ m_pc' = next
    /\ UNCHANGED m_result

InitMain ==
    /\ cli \in [interval : Intervals, rate : Rates, num_samples : Counts,
                conf : BOOLEAN, nplc : BOOLEAN]
    /\ cli.rate # <<>> => cli.interval = DefaultInterval
    /\ cli.nplc => cli.conf
    /\ m_pc = "validate"
    /\ dmm = "none"
    /\ m_sample_period = 0
    /\ m_num_samples = 0
    /\ m_term = FALSE
    /\ m_sequence = 0
    /\ m_ops = <<>>
    /\ m_log = <<>>
    /\ m_result = [kind |-> "running", why |-> ""]
    /\ RunAtRest
    /\ SleepUntilAtRest
    /\ ParseAtRest
    /\ SessionAtRest
    /\ CliAtRest

\* main.rs:164-176: the two checks, then sample_period and num_samples
MainValidate ==
    /\ m_pc = "validate"
    /\ IF cli.interval = 0 THEN
          /\ MainBail("interval")
          /\ UNCHANGED <<m_ops, m_sample_period, m_num_samples>>
       ELSE IF cli.rate = <<0>> THEN
          /\ MainBail("rate")
          /\ UNCHANGED <<m_ops, m_sample_period, m_num_samples>>
       ELSE IF ~DurationFromSecs(PeriodOf(cli)).ok THEN
          /\ m_pc' = "done"
          /\ m_result' = [kind |-> "panic", why |-> "from_secs_f64"]
          /\ UNCHANGED <<dmm, m_ops, m_sample_period, m_num_samples>>
       ELSE
          /\ m_sample_period' = DurationFromSecs(PeriodOf(cli)).ms
          /\ m_num_samples' = CliNumSamples(cli.num_samples)
          /\ MainGoes("connect")
          /\ UNCHANGED <<dmm, m_ops>>
    /\ UNCHANGED <<outsideMain, cli, m_term, m_sequence, m_log>>

\* main.rs:178-181: ScpiDevice::connect_with_port
MainConnect ==
    /\ m_pc = "connect"
    /\ \/ /\ dmm' = "Open"
          /\ MainCalls("connect")
          /\ MainGoes("idn")
       \/ MainBail("connect") /\ UNCHANGED m_ops
    /\ UNCHANGED <<outsideMain, cli, m_sample_period, m_num_samples, m_term, m_sequence,
                   m_log>>

\* main.rs:183-185: dmm.request("*IDN?")
MainIdentify ==
    /\ m_pc = "idn"
    /\ \/ MainCalls("request") /\ MainGoes("cls") /\ UNCHANGED dmm
       \/ MainCalls("request") /\ MainBail("request")
    /\ UNCHANGED <<outsideMain, cli, m_sample_period, m_num_samples, m_term, m_sequence,
                   m_log>>

\* main.rs:187: dmm.send("*CLS")
MainClear ==
    /\ m_pc = "cls"
    /\ \/ MainCalls("send") /\ MainGoes("cls_err") /\ UNCHANGED dmm
       \/ MainCalls("send") /\ MainBail("send")
    /\ UNCHANGED <<outsideMain, cli, m_sample_period, m_num_samples, m_term, m_sequence,
                   m_log>>

\* main.rs:189-195: dmm.fetch_error(), bail! on an error of the device
MainClearCheck ==
    /\ m_pc = "cls_err"
    /\ \/ MainCalls("fetch_error") /\ MainGoes("conf") /\ UNCHANGED dmm
       \/ MainCalls("fetch_error") /\ MainBail("fetch_error")
       \/ MainCalls("fetch_error") /\ MainBail("device")
    /\ UNCHANGED <<outsideMain, cli, m_sample_period, m_num_samples, m_term, m_sequence,
                   m_log>>

\* main.rs:197-200: if let Some(conf) = conf { dmm.send(&conf) }
MainConf ==
    /\ m_pc = "conf"
    /\ IF cli.conf
       THEN \/ MainCalls("send") /\ MainGoes("nplc") /\ UNCHANGED dmm
            \/ MainCalls("send") /\ MainBail("send")
       ELSE MainGoes("nplc") /\ UNCHANGED <<dmm, m_ops>>
    /\ UNCHANGED <<outsideMain, cli, m_sample_period, m_num_samples, m_term, m_sequence,
                   m_log>>

\* main.rs:202-205: if let Some(nplc) = nplc { dmm.send(&nplc) }
MainNplc ==
    /\ m_pc = "nplc"
    /\ IF cli.nplc
       THEN \/ MainCalls("send") /\ MainGoes("setup_err") /\ UNCHANGED dmm
            \/ MainCalls("send") /\ MainBail("send")
       ELSE MainGoes("setup_err") /\ UNCHANGED <<dmm, m_ops>>
    /\ UNCHANGED <<outsideMain, cli, m_sample_period, m_num_samples, m_term, m_sequence,
                   m_log>>

\* main.rs:207-213: dmm.fetch_error(), bail! on an error of the device
MainSetupCheck ==
    /\ m_pc = "setup_err"
    /\ \/ MainCalls("fetch_error") /\ MainGoes("guard") /\ UNCHANGED dmm
       \/ MainCalls("fetch_error") /\ MainBail("fetch_error")
       \/ MainCalls("fetch_error") /\ MainBail("device")
    /\ UNCHANGED <<outsideMain, cli, m_sample_period, m_num_samples, m_term, m_sequence,
                   m_log>>

\* the first read made whatever the count
GuardNone(n) == TRUE

\* main.rs:229  num_samples > 0
Guard(n) == n > 0

\* main.rs:229: if num_samples > 0 { ... }, else on to close
MainGuard ==
    /\ m_pc = "guard"
    /\ MainGoes(IF Guard(m_num_samples) THEN "hooks" ELSE "close")
    /\ UNCHANGED <<outsideMain, cli, dmm, m_sample_period, m_num_samples, m_term,
                   m_sequence, m_ops, m_log>>

\* main.rs:230: install_signal_hooks()?
MainHooks ==
    /\ m_pc = "hooks"
    /\ \/ MainGoes("first_read") /\ UNCHANGED <<dmm, m_ops>>
       \/ MainBail("hooks") /\ UNCHANGED m_ops
    /\ UNCHANGED <<outsideMain, cli, m_sample_period, m_num_samples, m_term, m_sequence,
                   m_log>>

\* main.rs:232-237: the first timed_read, then log(0, ...)
MainFirstRead ==
    /\ m_pc = "first_read"
    /\ \/ /\ MainCalls("timed_read")
          /\ m_log' = Append(m_log, 0)
          /\ m_sequence' = 1
          /\ MainGoes("loop")
          /\ UNCHANGED dmm
       \/ /\ MainCalls("timed_read")
          /\ MainBail("timed_read")
          /\ UNCHANGED <<m_log, m_sequence>>
    /\ UNCHANGED <<outsideMain, cli, m_sample_period, m_num_samples, m_term>>

\* main.rs:239-241: for sequence in 1..num_samples: the next tick calls
\* sleep_until, the end of the range leaves the loop.
\* (m_sequence < MaxSamples bounds the ticks of a run without -n.)
MainLoopHead ==
    /\ m_pc = "loop"
    /\ IF InRange(m_sequence, m_num_samples)
       THEN m_sequence < MaxSamples /\ MainGoes("sleep_until")
       ELSE MainGoes("close")
    /\ UNCHANGED <<outsideMain, cli, dmm, m_sample_period, m_num_samples, m_term,
                   m_sequence, m_ops, m_log>>

\* main.rs:241, 270-275: sleep_until returns true
MainSleepUntilFire ==
    /\ m_pc = "sleep_until"
    /\ ~m_term
    /\ MainGoes("read")
    /\ UNCHANGED <<outsideMain, cli, dmm, m_sample_period, m_num_samples, m_term,
                   m_sequence, m_ops, m_log>>

\* main.rs:241, 251-253, 271, 284: sleep_until returns false: break
MainSleepUntilCancelled ==
    /\ m_pc = "sleep_until"
    /\ m_term
    /\ MainGoes("close")
    /\ UNCHANGED <<outsideMain, cli, dmm, m_sample_period, m_num_samples, m_term,
                   m_sequence, m_ops, m_log>>

\* main.rs:242-250: timed_read, then log(sequence, ...)
MainRead ==
    /\ m_pc = "read"
    /\ \/ /\ MainCalls("timed_read")
          /\ m_log' = Append(m_log, m_sequence)
          /\ m_sequence' = m_sequence + 1
          /\ MainGoes("loop")
          /\ UNCHANGED dmm
       \/ /\ MainCalls("timed_read")
          /\ MainBail("timed_read")
          /\ UNCHANGED <<m_log, m_sequence>>
    /\ UNCHANGED <<outsideMain, cli, m_sample_period, m_num_samples, m_term>>

\* main.rs:256-257, scpi.rs:34-37: dmm.close()? consumes the device; the
\* shutdown of the socket may fail
MainClose ==
    /\ m_pc = "close"
    /\ MainCalls("close")
    /\ dmm' = "Closed"
    /\ m_pc' = "done"
    /\ \/ m_result' = [kind |-> "Ok", why |-> ""]
       \/ m_result' = [kind |-> "Err", why |-> "close"]
    /\ UNCHANGED <<outsideMain, cli, m_sample_period, m_num_samples, m_term, m_sequence,
                   m_log>>

\* a termination signal arrives once the hooks are installed
MainSignal ==
    /\ m_pc \in {"first_read", "loop", "sleep_until", "read"}
    /\ ~m_term
    /\ m_term' = TRUE
    /\ UNCHANGED <<outsideMain, cli, m_pc, dmm, m_sample_period, m_num_samples,
                   m_sequence, m_ops, m_log, m_result>>

NextMain ==
    \/ MainValidate
    \/ MainConnect
    \/ MainIdentify
    \/ MainClear
    \/ MainClearCheck
    \/ MainConf
    \/ MainNplc
    \/ MainSetupCheck
    \/ MainGuard
    \/ MainHooks
    \/ MainFirstRead
    \/ MainLoopHead
    \/ MainSleepUntilFire
    \/ MainSleepUntilCancelled
    \/ MainRead
    \/ MainClose
    \/ MainSignal

SpecMain == InitMain /\ [][NextMain]_vars

(* ------------- cli.rs: Cli::validate and the getters of the run --------- *)
(* The command line is parsed; validate is called on it, then the getters  *)
(* sample_period and num_samples, each once, in any order.                 *)

\* cli.rs:193-207 Cli::validate
Validate(c) ==
    IF c.interval = 0 THEN [kind |-> "Err", why |-> "interval"]
    ELSE IF c.rate = <<0>> THEN [kind |-> "Err", why |-> "rate"]
    ELSE IF c.num_samples = 0 THEN [kind |-> "Err", why |-> "num_samples"]
    ELSE [kind |-> "Ok", why |-> ""]

\* cli.rs:241-243 Cli::sample_period: 1.0 / 0.0 is infinite, and
\* Duration::from_secs_f64 panics if secs is negative or not finite
SamplePeriod(c) ==
    IF c.rate = <<0>> \/ ~DurationFromSecs(PeriodOf(c)).ok
    THEN [kind |-> "panic", ms |-> 0]
    ELSE [kind |-> "Ok", ms |-> DurationFromSecs(PeriodOf(c)).ms]

InitCli ==
    /\ cli \in [interval : Intervals, rate : Rates, num_samples : Counts,
                conf : BOOLEAN, nplc : BOOLEAN]
    /\ cli.rate # <<>> => cli.interval = DefaultInterval
    /\ cli.nplc => cli.conf
    /\ validated = [kind |-> "called", why |-> ""]
    /\ c_period = [kind |-> "none", ms |-> 0]
    /\ c_count = [kind |-> "none", n |-> 0]
    /\ MainIdle
    /\ RunAtRest
    /\ SleepUntilAtRest
    /\ ParseAtRest
    /\ SessionAtRest

\* cli.rs:193-207: validate returns
CliValidate ==
    /\ validated.kind = "called"
    /\ validated' = Validate(cli)
    /\ UNCHANGED <<outsideCli, c_period, c_count>>

\* cli.rs:241-243: sample_period returns or panics
CliSamplePeriod ==
    /\ validated.kind # "called"
    /\ c_period.kind = "none"
    /\ c_period' = SamplePeriod(cli)
    /\ UNCHANGED <<outsideCli, validated, c_count>>

\* cli.rs:245-247: num_samples returns
CliNumSamplesCall ==
    /\ validated.kind # "called"
    /\ c_count.kind = "none"
    /\ c_count' = [kind |-> "Ok", n |-> CliNumSamples(cli.num_samples)]
    /\ UNCHANGED <<outsideCli, validated, c_period>>

NextCli ==
    \/ CliValidate
    \/ CliSamplePeriod
    \/ CliNumSamplesCall

SpecCli == InitCli /\ [][NextCli]_vars

(* ------------- the two run loops, called with any sample count ---------- *)
(* main of main.rs takes the count from the command line as it is; run of  *)
(* app.rs takes it as its argument num_samples: u32, here 0 included, the  *)
(* one value Cli::validate would turn away (cli.rs:201-203).               *)

InitAnyCount ==
    \/ /\ InitMain
    \/ /\ sample_period \in {Quantum, 2 * Quantum}
       /\ num_samples \in 0..2
       /\ drop_slow_samples \in BOOLEAN
       /\ bar = FALSE
       /\ RunEntry
       /\ wall = 0
       /\ datetime = 0
       /\ SleepUntilAtRest
       /\ ParseAtRest
       /\ SessionAtRest
       /\ MainAtRest
    /\ CliAtRest

\* a step of run when run is the program under way, or a step of main
NextAnyCount ==
    \/ m_pc = "rest" /\ InstallSignalHooks
    \/ m_pc = "rest" /\ InstallSignalHooksFail
    \/ m_pc = "rest" /\ ReadBegin
    \/ m_pc = "rest" /\ ReadOk
    \/ m_pc = "rest" /\ ReadFail
    \/ m_pc = "rest" /\ FirstRecord
    \/ m_pc = "rest" /\ LoopRecord
    \/ m_pc = "rest" /\ LoopHead
    \/ m_pc = "rest" /\ LoopExit
    \/ m_pc = "rest" /\ SleepUntilCancelled
    \/ m_pc = "rest" /\ SleepUntilFire
    \/ m_pc = "rest" /\ SleepUntilSleep
    \/ m_pc = "rest" /\ Wake
    \/ m_pc = "rest" /\ Tick
    \/ m_pc = "rest" /\ Signal
    \/ NextMain

SpecAnyCount == InitAnyCount /\ [][NextAnyCount]_vars

(* ============================ properties =============================== *)

Records == 1..Len(output)
Reads == 1..Len(readLog)
Ticks == 1..Len(tickLog)

\* the records emitted for tick k
RecordsOf(k) == {i \in Records : output[i].seq = k}
\* the reads issued for tick k
ReadsOf(k) == {i \in Reads : readLog[i].seq = k}
\* tick k is over: the loop has moved past it or run has returned
Over(k) == sequence > k \/ pc = "done"

(* C1: the sequence numbers of the emitted records are the tick indices:   *)
(* the i-th record emitted carries i - 1, so the numbers strictly increase *)
(* with no duplicate, a skipped or discarded tick uses up its number, and  *)
(* no Sample carries the number of a tick that produced a comment.         *)
C1_SequenceNumbers ==
    /\ \A i \in Records : output[i].seq = i - 1
    /\ \A i, j \in Records : i < j => output[i].seq < output[j].seq
    /\ \A i, j \in Records :
          output[i].kind # "sample" /\ output[j].kind = "sample"
              => output[j].seq # output[i].seq

\* a skipped tick between two Samples: a gap in the Samples' numbers
C1_Witness ==
    /\ Len(output) = 3
    /\ output[1].kind = "sample"
    /\ output[2].kind = "too_late"
    /\ output[3].kind = "sample" /\ output[3].seq = 2

(* C2: a failed device read is the last read of the run: run has returned  *)
(* Err, the output holds exactly the records of the ticks before the       *)
(* failed one (none for it or a later tick), and no read follows.          *)
C2_ReadFailureAborts ==
    \A i \in Reads :
        readLog[i].outcome = "failed" =>
            /\ i = Len(readLog)
            /\ pc = "done" /\ result = "Err" /\ stop = "read"
            /\ Len(output) = readLog[i].seq
            /\ \A j \in Records : output[j].seq < readLog[i].seq

\* the read of tick 2 failed after two records were emitted
C2_Witness ==
    /\ Len(readLog) >= 2
    /\ readLog[Len(readLog)].outcome = "failed"
    /\ readLog[Len(readLog)].seq = 2
    /\ Len(output) = 2

(* C3: when the flag is set at instant T while sleep_until waits for a     *)
(* planned instant later than T + 200 ms, the sleep in progress is due to  *)
(* end by T + 100 ms, the wait then returns "cancelled" and run returns    *)
(* Ok; no read is issued after T and the output stays what it was at T.    *)
C3_CancelDuringWait ==
    (term /\ sig.pc \in {"sleeping", "sleep_until"} /\ sig.planed > sig.at + 200) =>
        /\ wakeAt <= sig.at + 100
        /\ pc \in {"sleeping", "sleep_until", "done"}
        /\ pc = "done" => result = "Ok" /\ stop = "cancelled"
        /\ Len(readLog) = sig.reads
        /\ output = sig.output

\* cancelled in the middle of a sleep with more than 200 ms to go, with a
\* Sample already taken; run has stopped
C3_Witness ==
    /\ term /\ sig.pc = "sleeping" /\ sig.planed > sig.at + 200
    /\ sig.at < wakeAt
    /\ pc = "done"
    /\ Len(output) >= 1 /\ output[1].kind = "sample"

(* C4 as stated: with no failed read, no failed write and the flag never   *)
(* set, a finished run has processed exactly the ticks 0..N-1.             *)
C4_AsClaimed ==
    (pc = "done" /\ ~term /\ stop \notin {"read", "write"}) =>
        /\ Len(output) = num_samples
        /\ \A i \in Records : output[i].seq = i - 1

(* C4, amended: if the signal hooks were installed, no read and no write   *)
(* failed and the flag was never set, run returns Ok after processing      *)
(* exactly the ticks 0..N-1 in order; in every run no tick with index >= N *)
(* is processed and the loop is left as soon as tick N-1 is over.          *)
C4_ExactlyNTicks ==
    /\ (pc = "done" /\ ~term /\ stop \notin {"hooks", "read", "write"}) =>
          /\ result = "Ok" /\ stop = "exhausted"
          /\ Len(output) = num_samples
          /\ \A i \in Records : output[i].seq = i - 1
    /\ \A i \in Records : output[i].seq < num_samples
    /\ \A i \in Reads : readLog[i].seq < num_samples
    /\ \A i \in Ticks : tickLog[i].seq < num_samples
    /\ sequence <= num_samples
    /\ (pc = "loop" /\ sequence = num_samples) => ENABLED LoopExit

\* a run of three ticks ended by exhaustion, the flag never set
C4_Witness ==
    /\ pc = "done" /\ stop = "exhausted" /\ ~term
    /\ num_samples = 3 /\ Len(output) = 3

(* C5 as stated: Ok exactly for cancellation or exhaustion, Err exactly    *)
(* for a failed read or a failed write.                                    *)
C5_AsClaimed ==
    pc = "done" =>
        /\ result = "Ok" <=> stop \in {"cancelled", "exhausted"}
        /\ result = "Err" <=> stop \in {"read", "write"}

(* C5, amended: run returns Ok exactly when the loop ended by cancellation *)
(* (the flag is set) or by exhaustion of the sample count, and Err exactly *)
(* when installing the signal hooks, a device read or an output write      *)
(* failed.                                                                 *)
C5_OkOrErr ==
    /\ pc = "done" <=> result # "running"
    /\ pc = "done" =>
          /\ result \in {"Ok", "Err"}
          /\ result = "Ok" <=> stop \in {"cancelled", "exhausted"}
          /\ result = "Err" <=> stop \in {"hooks", "read", "write"}
          /\ stop = "cancelled" => term /\ sequence \in scheduled
          /\ stop = "exhausted" => sequence = num_samples
          /\ stop = "read" => readLog[Len(readLog)].outcome = "failed"
          /\ stop # "read" => \A i \in Reads : readLog[i].outcome = "ok"

\* a cancelled run, two records taken, reported Ok
C5_Witness ==
    /\ pc = "done" /\ stop = "cancelled" /\ result = "Ok"
    /\ Len(output) = 2

(* C6: while tick k >= 1 is being processed, its planned instant is the    *)
(* capture instant of tick 0 plus k periods, whatever happened in the      *)
(* ticks before; so moment - delay of the Sample of tick k is k periods.   *)
C6_NoDrift ==
    /\ (pc \in {"sleep_until", "sleeping", "read", "inflight", "emit"} /\ sequence >= 1)
          => planed = readLog[1].at + sequence * sample_period
    /\ \A i \in Ticks :
          /\ tickLog[i].seq = i
          /\ tickLog[i].planed = readLog[1].at + i * sample_period
    /\ \A i \in Records :
          (output[i].kind = "sample" /\ output[i].seq >= 1)
              => output[i].moment - output[i].delay = output[i].seq * sample_period

\* tick 2 is read on plan although tick 1 was read late, the anchor not 0
C6_Witness ==
    /\ Len(output) = 3
    /\ readLog[1].at > 0
    /\ output[2].kind = "sample" /\ output[2].delay > 0
    /\ output[3].kind = "sample" /\ output[3].delay = 0

\* the last tick begun is still being processed and was overdue when it began
OverdueTickInProgress ==
    /\ Len(tickLog) >= 1
    /\ tickLog[Len(tickLog)].seq = sequence
    /\ tickLog[Len(tickLog)].overdue
    /\ pc # "done"

(* C7 as stated: a tick k >= 1 already overdue when it begins is, in       *)
(* drop-slow-samples mode, neither read nor scheduled and yields exactly   *)
(* one "too late" comment carrying now - planned; with the mode off it     *)
(* yields no such comment and, once the tick is over, its read was issued. *)
C7_AsClaimed ==
    \A i \in Ticks : tickLog[i].overdue =>
        IF drop_slow_samples
        THEN /\ ReadsOf(tickLog[i].seq) = {}
             /\ tickLog[i].seq \notin scheduled
             /\ \E j \in Records :
                   /\ RecordsOf(tickLog[i].seq) = {j}
                   /\ output[j] = [kind |-> "too_late", seq |-> tickLog[i].seq,
                                   delay |-> tickLog[i].overrun]
        ELSE /\ \A j \in RecordsOf(tickLog[i].seq) : output[j].kind # "too_late"
             /\ tickLog[i].seq \in scheduled
             /\ Over(tickLog[i].seq) => ReadsOf(tickLog[i].seq) # {}

(* C7, amended: as stated for drop-slow-samples mode; with the mode off an *)
(* overdue tick is never skipped: the scheduler is called for it, does not *)
(* sleep, and the read is issued unless the scheduler finds the            *)
(* cancellation flag set and the loop stops there.                         *)
C7_OverdueTick ==
    /\ \A i \in Ticks : tickLog[i].overdue =>
          IF drop_slow_samples
          THEN /\ ReadsOf(tickLog[i].seq) = {}
               /\ tickLog[i].seq \notin scheduled
               /\ \E j \in Records :
                     /\ RecordsOf(tickLog[i].seq) = {j}
                     /\ output[j] = [kind |-> "too_late", seq |-> tickLog[i].seq,
                                     delay |-> tickLog[i].overrun]
          ELSE /\ \A j \in RecordsOf(tickLog[i].seq) : output[j].kind # "too_late"
               /\ tickLog[i].seq \in scheduled
               /\ Over(tickLog[i].seq) =>
                     \/ ReadsOf(tickLog[i].seq) # {}
                     \/ stop = "cancelled" /\ term /\ sequence = tickLog[i].seq
    /\ OverdueTickInProgress => pc # "sleeping"
    /\ \A i \in Records : output[i].kind = "too_late" => drop_slow_samples

\* drop-slow-samples mode: tick 1 began exactly on its planned instant and was
\* skipped with a comment carrying the overrun 0, tick 2 began late
C7_Witness ==
    /\ drop_slow_samples
    /\ Len(tickLog) >= 2 /\ Len(output) >= 3
    /\ tickLog[1].overdue /\ tickLog[1].overrun = 0
    /\ output[2].kind = "too_late" /\ output[2].delay = 0
    /\ tickLog[2].overdue /\ tickLog[2].overrun > 0
    /\ output[3].kind = "too_late"

(* C8: every tick whose read succeeded and whose record has been emitted   *)
(* has exactly one record: the "latency too high" comment if and only if   *)
(* drop-slow-samples mode is on and latency >= period, otherwise a Sample. *)
C8_DiscardIffLatencyAtLeastPeriod ==
    \A i \in Reads :
        (readLog[i].outcome = "ok" /\ ~(i = Len(readLog) /\ pc = "emit")) =>
            \E j \in Records :
                /\ RecordsOf(readLog[i].seq) = {j}
                /\ output[j].seq = readLog[i].seq
                /\ output[j].latency = readLog[i].latency
                /\ output[j].kind =
                      IF drop_slow_samples /\ readLog[i].latency >= sample_period
                      THEN "latency_too_high"
                      ELSE "sample"

\* a read of tick 1 whose latency equals the period is discarded, and the same
\* run kept the Sample of tick 0
C8_Witness ==
    /\ Len(output) >= 2
    /\ output[1].kind = "sample"
    /\ output[2].kind = "latency_too_high"
    /\ output[2].latency = sample_period

(* C9: the first device read is the read of tick 0, issued before any call *)
(* of the scheduler and whether or not the cancellation flag is set; its   *)
(* capture instant is the anchor started of every planned instant, and its *)
(* Sample is written with moment 0 and delay 0.                            *)
C9_FirstRead ==
    /\ Len(readLog) >= 1 => readLog[1].seq = 0 /\ readLog[1].sched = {}
    /\ (pc = "read" /\ sequence = 0) => ENABLED ReadBegin
    /\ (scheduled # {} \/ tickLog # <<>>) =>
          Len(readLog) >= 1 /\ readLog[1].outcome = "ok"
    /\ (Len(readLog) >= 1 /\ readLog[1].outcome = "ok") => started = readLog[1].at
    /\ \A i \in Ticks : tickLog[i].planed = readLog[1].at + i * sample_period
    /\ Len(output) >= 1 =>
          /\ output[1].seq = 0
          /\ output[1].latency = readLog[1].latency
          /\ output[1].kind = "sample" => output[1].moment = 0 /\ output[1].delay = 0

\* the flag was already set when the read of tick 0 was issued, at an instant
\* other than 0, and its Sample was written
C9_Witness ==
    /\ Len(readLog) >= 1 /\ readLog[1].flag /\ readLog[1].at > 0
    /\ readLog[1].latency > 0
    /\ Len(output) >= 1 /\ output[1].kind = "sample"

\* the Samples the sink accepted: a Sample whose write failed is not one
AcceptedSamples ==
    {i \in Records : output[i].kind = "sample" /\ ~(i = Len(output) /\ stop = "write")}

(* C10 as stated: with a progress bar shown, its position is the number of *)
(* accepted Samples: one step per Sample, none for a tick that produced a  *)
(* comment, skipped or discarded.                                          *)
C10_AsClaimed ==
    bar => barPos = Cardinality(AcceptedSamples)

\* the flag was set while a device read was in flight; that read is the
\* sig.reads-th of the run
CancelledInFlight == term /\ sig.pc = "inflight"

(* C11 as stated: a flag set while the read of tick k is in flight does    *)
(* not interrupt the read; it runs to completion or failure, on success    *)
(* the record of tick k is still emitted, and the flag is observed only    *)
(* afterwards, at the scheduler call of tick k+1: when tick k+1 begins the *)
(* scheduler is called for it and the loop stops there, with no further    *)
(* read and no record of a tick after k.                                   *)
C11_AsClaimed ==
    CancelledInFlight =>
        LET k == readLog[sig.reads].seq IN
        /\ Len(readLog) = sig.reads
        /\ readLog[sig.reads].outcome = "inflight" <=> pc = "inflight"
        /\ (readLog[sig.reads].outcome = "ok" /\ pc # "emit") => RecordsOf(k) # {}
        /\ \A j \in Records : output[j].seq <= k
        /\ sequence <= k + 1
        /\ \A i \in Ticks : tickLog[i].seq > k => tickLog[i].seq \in scheduled
        /\ stop = "cancelled" => sequence = k + 1

(* C13: every emitted Sample with index k >= 1 has a moment (its capture   *)
(* instant minus the start) of at least (k-1) periods, in every run and so *)
(* in every run without cancellation.                                      *)
C13_MomentLowerBound ==
    \A i \in Records :
        (output[i].kind = "sample" /\ output[i].seq >= 1) =>
            /\ output[i].moment >= (output[i].seq - 1) * sample_period
            /\ \E r \in Reads :
                  /\ readLog[r].seq = output[i].seq
                  /\ output[i].moment = readLog[r].at - readLog[1].at

\* no cancellation; the Sample of tick 2 was captured exactly two periods
\* after the start, one period above the bound
C13_Witness ==
    /\ ~term
    /\ Len(output) = 3
    /\ output[3].kind = "sample" /\ output[3].seq = 2
    /\ output[3].moment = 2 * sample_period
    /\ readLog[1].at > 0

RECURSIVE Numeral(_)
Numeral(n) ==
    IF n < 10 THEN <<DecimalDigits[n + 1]>>
    ELSE Numeral(n \div 10) \o <<DecimalDigits[(n % 10) + 1]>>

Zeros(z) == [i \in 1..z |-> "0"]
Spaces(z) == [i \in 1..z |-> " "]

\* u is a string of digits that denotes the natural number n
DenotesNatural(u, n) ==
    IF n = 0 THEN Len(u) >= 1 /\ u = Zeros(Len(u))
    ELSE \E z \in 0..Len(u) : u = Zeros(z) \o Numeral(n)

\* h is an optionally signed string of digits that denotes the integer n
DenotesInteger(h, n) ==
    /\ h # <<>>
    /\ IF h[1] \in {"-", "+"}
       THEN /\ DenotesNatural(Tail(h), IF n < 0 THEN 0 - n ELSE n)
            /\ n < 0 => h[1] = "-"
            /\ n > 0 => h[1] = "+"
       ELSE n >= 0 /\ DenotesNatural(h, n)

\* the part of the line before its first comma (the whole line if none)
BeforeComma(s) ==
    LET commas == {i \in 1..Len(s) : s[i] = ","} IN
    IF commas = {} THEN s
    ELSE SubSeq(s, 1, (CHOOSE i \in commas : \A j \in commas : i <= j) - 1)

\* fetch_error parsed the answer of the device
FetchErrorParsed == fetched.kind \in {"None", "Some"}

(* C16: whenever fetch_error parses the response, it returns None exactly  *)
(* when the integer in front of the comma is 0 and otherwise Some error    *)
(* whose code is that integer and whose text is the text between the       *)
(* quotes; an error value never carries the code 0.                        *)
C16_NoneIffZero ==
    FetchErrorParsed =>
        /\ fetched.kind = "None" <=> DenotesInteger(BeforeComma(response), 0)
        /\ fetched.kind = "Some" =>
              /\ fetched.code # 0
              /\ DenotesInteger(BeforeComma(response), fetched.code)
              /\ \E g, e \in 0..Len(response) :
                    response = BeforeComma(response) \o <<",">> \o Spaces(g) \o <<"\"">>
                               \o fetched.text \o <<"\"">> \o Spaces(e)

\* a negative code, and a text that itself holds a quote
C16_Witness ==
    /\ fetched.kind = "Some"
    /\ fetched.code < 0
    /\ \E i \in 1..Len(fetched.text) : fetched.text[i] = "\""
    /\ response[Len(response)] = " "

\* t is an integer of the claimed shape: an optional sign and digits
IsInteger(t) ==
    LET ds == IF t # <<>> /\ t[1] \in {"-", "+"} THEN Tail(t) ELSE t
    IN  ds # <<>> /\ \A i \in 1..Len(ds) : IsDigit(ds[i])

\* the line has the shape <integer>,"<text>" with optional whitespace
\* around the integer, around the quoted text, and a text that is not empty
ClaimedShape(s) ==
    LET head == BeforeComma(s)
        rest == Trim(SubSeq(s, Len(head) + 2, Len(s)))
    IN  /\ Len(head) < Len(s)
        /\ IsInteger(Trim(head))
        /\ Len(rest) >= 3
        /\ rest[1] = "\"" /\ rest[Len(rest)] = "\""

(* C17 as stated: once the request is answered, fetch_error returns None   *)
(* or Some for every response of the shape <integer>,"<text>" with         *)
(* optional whitespace around the integer, and fails with the protocol     *)
(* error for every other response.                                         *)
C17_AsClaimed ==
    (fetched.kind \notin {"called", "rest"} /\ fetched.text # <<"i", "o">>) =>
        IF ClaimedShape(response)
        THEN FetchErrorParsed
        ELSE fetched.kind = "Err"
             /\ fetched.text = <<"n", "o", " ", "m", "a", "t", "c", "h">>

\* t is x without the whitespace at its two ends
IsTrimOf(t, x) ==
    /\ t # <<>> => ~IsSpace(t[1]) /\ ~IsSpace(t[Len(t)])
    /\ \E a, b \in 0..Len(x) : x = Spaces(a) \o t \o Spaces(b)

\* the positions of the commas of the response
Commas == {i \in 1..Len(response) : response[i] = ","}

\* the j-th comma-separated field of a response with three commas
Field(j) ==
    LET c1 == CHOOSE i \in Commas : \A k \in Commas : i <= k
        c3 == CHOOSE i \in Commas : \A k \in Commas : k <= i
        c2 == CHOOSE i \in Commas : i # c1 /\ i # c3
    IN  CASE j = 1 -> SubSeq(response, 1, c1 - 1)
          [] j = 2 -> SubSeq(response, c1 + 1, c2 - 1)
          [] j = 3 -> SubSeq(response, c2 + 1, c3 - 1)
          [] j = 4 -> SubSeq(response, c3 + 1, Len(response))

(* C18: once the request is answered, identification returns Ok for every  *)
(* response.  With exactly three commas (four fields) the four fields,     *)
(* each without its surrounding whitespace, are manufacturer, model,       *)
(* serial and firmware in this order; with any other number of commas the  *)
(* whole response without its surrounding whitespace is the model and the  *)
(* three other fields are "?".                                             *)
C18_Identification ==
    /\ ident.kind \in {"called", "Ok", "Err"}
    /\ Identification(response).kind = "Ok"
    /\ ident.kind = "Ok" =>
          IF Cardinality(Commas) = 3
          THEN /\ IsTrimOf(ident.manufacturer, Field(1))
               /\ IsTrimOf(ident.model, Field(2))
               /\ IsTrimOf(ident.serial, Field(3))
               /\ IsTrimOf(ident.firmware, Field(4))
          ELSE /\ IsTrimOf(ident.model, response)
               /\ ident.manufacturer = <<"?">>
               /\ ident.serial = <<"?">>
               /\ ident.firmware = <<"?">>

\* five fields, the first with whitespace in front: the whole response,
\* commas included, is the model
C18_Witness ==
    /\ ident.kind = "Ok"
    /\ Cardinality(Commas) = 4
    /\ response[1] = " "
    /\ ident.manufacturer = <<"?">>
    /\ Len(ident.model) = Len(response) - 1

(* C19: the latency of a read is the time of the monotonic clock from the  *)
(* capture instant to the answer: never negative and the same however the  *)
(* wall clock is set before or during the read; the latency, moment and    *)
(* delay of every record are differences of monotonic instants only.       *)
C19_LatencyMonotonic ==
    /\ pc = "emit" =>
          /\ latency = now - readLog[Len(readLog)].at
          /\ latency >= 0
          /\ readLog[Len(readLog)].latency = latency
    /\ \A i \in Reads : readLog[i].latency >= 0
    /\ \A i \in Records :
          output[i].kind \in {"sample", "latency_too_high"} =>
              \E r \in Reads :
                  /\ readLog[r].seq = output[i].seq
                  /\ output[i].latency = readLog[r].latency
                  /\ output[i].kind = "sample" =>
                        /\ output[i].moment = readLog[r].at - readLog[1].at
                        /\ output[i].delay =
                              output[i].moment - output[i].seq * sample_period

\* the wall clock was set back while the read of tick 1 was in flight; the
\* read took one clock step
C19_Witness ==
    /\ pc = "emit"
    /\ sequence = 1
    /\ wall < datetime
    /\ latency = Quantum

\* the lines written to the socket since the last call began
Segment == [i \in 1..(Len(wire) - base.wire) |-> wire[base.wire + i].line]
\* the answers read from the socket since the last call began
Answers == [i \in 1..(Len(heard) - base.heard) |-> heard[base.heard + i]]

\* the answer r to an error query holds the integer code and, in quotes, the
\* text, in the form fetch_error parses
Reports(r, code, text) ==
    /\ DenotesInteger(BeforeComma(r), code)
    /\ text # <<>>
    /\ \E g, e \in 0..Len(r) :
          r = BeforeComma(r) \o <<",">> \o Spaces(g) \o <<"\"">> \o text
              \o <<"\"">> \o Spaces(e)

\* the answer r reports an error of the device
ReportsAnError(r) ==
    \E code \in (0 - 9)..9 : \E a, b \in 1..Len(r) :
        code # 0 /\ Reports(r, code, SubSeq(r, a, b))

\* the answer r reports that there is no error
ReportsNoError(r) ==
    \E a, b \in 1..Len(r) : Reports(r, 0, SubSeq(r, a, b))

\* lines that are neither the clear step nor a query
IsCommand(line) == line \notin (Queries \cup {"*RST", "*CLS"})

(* C14: configure first sends exactly one of *RST (reset requested) and    *)
(* *CLS, then the error query SYST:ERR?; when the answer to that query     *)
(* reports a code other than 0, configure returns the error "Clearing      *)
(* error state failed" with that code and text, having sent no other line, *)
(* and a configuration command is only ever sent after the answer          *)
(* reported no error.                                                      *)
C14_ClearThenErrorQuery ==
    call = "configure" =>
        /\ d_pc \notin {"clear", "failed"} => Len(Segment) >= 1
        /\ d_pc \notin {"clear", "clear_err_send", "failed"} => Len(Segment) >= 2
        /\ Len(Segment) >= 1 => Segment[1] = IF reset THEN "*RST" ELSE "*CLS"
        /\ \A i \in 2..Len(Segment) : Segment[i] \notin {"*RST", "*CLS"}
        /\ Len(Segment) >= 2 => Segment[2] = "SYST:ERR?"
        /\ (Len(Answers) >= 1 /\ ReportsAnError(Answers[1])) =>
              /\ d_pc = "failed"
              /\ ret.kind = "Err" /\ ret.why = "device"
              /\ ret.msg = "Clearing error state failed"
              /\ ret.code # 0
              /\ Reports(Answers[1], ret.code, ret.text)
              /\ Len(Segment) = 2
        /\ (\E i \in 1..Len(Segment) : IsCommand(Segment[i])) =>
              Len(Answers) >= 1 /\ ReportsNoError(Answers[1])

\* a reset was requested and there are commands to send, but the device
\* reported the error -1 after the reset: configure has returned that error
C14_Witness ==
    /\ call = "configure"
    /\ reset /\ configs # <<>>
    /\ d_pc = "failed"
    /\ ret.why = "device" /\ ret.code = 0 - 1 /\ ret.text = <<"a">>
    /\ Len(Segment) = 2

\* the number of lines of the batch on the wire: what configure has sent
\* after the clear step and its error query, the commands at most
BatchSent == IF Len(Segment) - 2 < Len(configs) THEN Len(Segment) - 2 ELSE Len(configs)

(* C15 as stated: after a clear step without error configure sends the     *)
(* configuration commands in list order, nothing between them, then the    *)
(* error query exactly once, and only then *OPC?; a send failure on a      *)
(* command leaves the later commands unsent.                               *)
C15_AsClaimed ==
    (call = "configure" /\ Len(Answers) >= 1 /\ ReportsNoError(Answers[1])) =>
        /\ \A i \in 1..BatchSent : Segment[2 + i] = configs[i]
        /\ Len(Segment) > 2 + Len(configs) =>
              Segment[3 + Len(configs)] = "SYST:ERR?"
        /\ Len(Segment) > 3 + Len(configs) =>
              /\ Segment[4 + Len(configs)] = "*OPC?"
              /\ Len(Segment) = 4 + Len(configs)
        /\ (d_pc = "failed" /\ ret.why = "send" /\ ret.msg = "Configuring instrument failed")
              => Len(Segment) - 2 < Len(configs)

(* C15, amended: after a clear step without error configure sends the      *)
(* configuration commands in list order with nothing between them and, if  *)
(* the list is not empty, the error query exactly once after the last of   *)
(* them; with an empty list it sends no command and no second error query. *)
(* An answer reporting a code other than 0 makes configure return the      *)
(* error "Configuring instrument failed" with that code and text, and a    *)
(* send failure on a command leaves the later commands and the error query *)
(* unsent.  *OPC? is sent only after that.                                 *)
C15_BatchThenOneErrorQuery ==
    (call = "configure" /\ Len(Answers) >= 1 /\ ReportsNoError(Answers[1])) =>
        LET n == Len(configs)
            q == IF n = 0 THEN 0 ELSE 1
        IN  /\ \A i \in 1..BatchSent : Segment[2 + i] = configs[i]
            /\ (n > 0 /\ Len(Segment) > 2 + n) => Segment[3 + n] = "SYST:ERR?"
            /\ Len(Segment) > 2 + n + q =>
                  /\ Segment[3 + n + q] = "*OPC?"
                  /\ Len(Segment) = 3 + n + q
            /\ Len(Answers) <= 2 + q
            /\ d_pc \in {"opc_send", "opc_recv", "idle"} =>
                  /\ Len(Segment) >= 2 + n + q
                  /\ Len(Answers) >= 1 + q
                  /\ q = 1 => ReportsNoError(Answers[2])
            /\ (q = 1 /\ Len(Answers) >= 2 /\ ReportsAnError(Answers[2])) =>
                  /\ d_pc = "failed"
                  /\ ret.kind = "Err" /\ ret.why = "device"
                  /\ ret.msg = "Configuring instrument failed"
                  /\ Reports(Answers[2], ret.code, ret.text)
                  /\ Len(Segment) = 3 + n
            /\ (d_pc = "failed" /\ ret.why = "send"
                    /\ ret.msg = "Configuring instrument failed")
                  => Len(Segment) - 2 < n

\* three commands were sent one after the other, then the one error query,
\* whose answer reported the error 7
C15_Witness ==
    /\ call = "configure"
    /\ Len(configs) = 3
    /\ Len(Segment) = 6
    /\ Segment[5] = configs[3] /\ Segment[6] = "SYST:ERR?"
    /\ d_pc = "failed" /\ ret.why = "device" /\ ret.code = 7

\* the number of queries among the first n lines on the wire
RECURSIVE QueriesAmong(_)
QueriesAmong(n) ==
    IF n = 0 THEN 0
    ELSE QueriesAmong(n - 1) + (IF wire[n].line \in Queries THEN 1 ELSE 0)

(* C20: in a session of identification, configuration, reads and           *)
(* un-configuration on one connection, no line is written while the answer *)
(* to an earlier line is outstanding: at most one answer is outstanding at *)
(* any time, none whenever a line is written, and the connection is open   *)
(* whenever a line is written or read.                                     *)
C20_OneRequestInFlight ==
    /\ \A i \in 1..Len(wire) : wire[i].owed = 0
    /\ owed = QueriesAmong(Len(wire)) - Len(heard)
    /\ owed \in {0, 1}
    /\ owed = 1 =>
          /\ wire[Len(wire)].line \in Queries
          /\ d_pc \in {"idn_recv", "clear_err_recv", "batch_err_recv", "opc_recv",
                       "read_recv", "failed"}
          /\ d_pc = "failed" => ret.why = "receive"
    /\ \A i \in 1..(Len(wire) - 1) :
          wire[i].line \in Queries => wire[i + 1].owed = 0
    /\ d_pc \notin {"idle", "failed"} => conn = "Open"

\* a whole session: identification, configure with three commands, two
\* reads and unconfigure with two commands, every query answered in turn
C20_Witness ==
    /\ call = "unconfigure" /\ d_pc = "idle"
    /\ reads_done = 2
    /\ Len(configs) = 3 /\ Len(unconfigs) = 2
    /\ QueriesAmong(Len(wire)) = 7
    /\ Len(heard) = 7

(* C23: sleep_until returns true only when it has read the flag as clear   *)
(* and found the target reached, and false when it reads the flag as set:  *)
(* at the flag test with the flag set it can only return false, it neither *)
(* sleeps nor returns true, also when the target has already passed.       *)
C23_FlagBeforeTime ==
    /\ su_pc = "true" => ~su_term /\ su_now >= until
    /\ su_pc = "false" => su_term
    /\ (su_pc = "test" /\ su_term) =>
          /\ ENABLED SliceCancelled
          /\ ~ENABLED SliceFire
          /\ ~ENABLED SliceSleep
    /\ (su_pc = "test" /\ ~su_term) => ~ENABLED SliceCancelled
    /\ (su_pc = "test" /\ ~su_term /\ su_now < until) => ~ENABLED SliceFire

\* entered with the flag set and the target already reached: false, and no
\* sleep was made
C23_Witness ==
    /\ su_pc = "false"
    /\ su_now >= until
    /\ su_now = 0
    /\ slept = 0

(* C26: every sleep sleep_until requests is at most the remaining time of  *)
(* the same iteration, so it is due to end at the target at the latest:    *)
(* the request is the whole remainder, or 100 ms and then the remainder is *)
(* at least 150 ms; below 150 ms it is the remainder exactly.  With the    *)
(* target reached no sleep is requested.                                   *)
C26_NoSleepPastTarget ==
    /\ su_pc = "sleeping" =>
          /\ slept >= 1 /\ slept <= su_remaining
          /\ slept # su_remaining => slept = 100 /\ su_remaining >= 150
          /\ su_remaining < 150 => slept = su_remaining
          /\ su_wake + (su_remaining - slept) = until
    /\ (su_pc = "test" /\ su_now >= until) => ~ENABLED SliceSleep

\* app.rs, exactly 150 ms remaining: 100 ms are requested
C26_Witness ==
    /\ su_pc = "sleeping"
    /\ su_src = "app.rs"
    /\ su_remaining = 150
    /\ slept = 100

(* C24 as stated: once the flag is set, run emits at most one further      *)
(* record, in normal mode and in drop-slow-samples mode alike: the output  *)
(* is never more than one record longer than it was when the flag was set. *)
C24_AsClaimed ==
    term => Len(output) <= Len(sig.output) + 1

(* C25: the read of every tick k >= 1 is captured at or after its planned  *)
(* instant, the capture instant of tick 0 plus k periods; the delay of     *)
(* every Sample with k >= 1 is that difference, so it is >= 0, and its     *)
(* moment is >= k periods.                                                 *)
C25_NeverEarly ==
    /\ \A r \in Reads :
          readLog[r].seq >= 1 =>
              readLog[r].at >= readLog[1].at + readLog[r].seq * sample_period
    /\ (pc \in {"read", "inflight", "emit"} /\ sequence >= 1) =>
          /\ planed = started + sequence * sample_period
          /\ now >= planed
    /\ \A i \in Records :
          (output[i].kind = "sample" /\ output[i].seq >= 1) =>
              /\ output[i].delay >= 0
              /\ output[i].moment >= output[i].seq * sample_period
              /\ \E r \in Reads :
                    /\ readLog[r].seq = output[i].seq
                    /\ output[i].delay + readLog[1].at + output[i].seq * sample_period
                           = readLog[r].at

\* the Sample of tick 1 captured exactly on its planned instant and the
\* Sample of tick 2 one clock step after its own
C25_Witness ==
    /\ Len(output) = 3
    /\ output[2].kind = "sample" /\ output[2].delay = 0
    /\ output[3].kind = "sample" /\ output[3].delay = Quantum
    /\ readLog[1].at > 0

(* C27: with a sample count N >= 1, every tick the loop has moved past has *)
(* exactly one record and at most one read, no tick has more, the records  *)
(* and the reads each number at most N at every point, and with            *)
(* drop-slow-samples off every record is a Sample.                         *)
C27_OneRecordPerTick ==
    num_samples >= 1 =>
        /\ \A k \in 0..MaxSamples :
              /\ Cardinality(RecordsOf(k)) <= 1
              /\ Cardinality(ReadsOf(k)) <= 1
              /\ k < sequence => Cardinality(RecordsOf(k)) = 1
              /\ RecordsOf(k) # {} => \/ ReadsOf(k) # {}
                                      \/ output[CHOOSE i \in RecordsOf(k) : TRUE].kind
                                             = "too_late"
        /\ Len(output) <= num_samples
        /\ Len(readLog) <= num_samples
        /\ ~drop_slow_samples => \A i \in Records : output[i].kind = "sample"

\* N = 3 in drop-slow-samples mode: three records, the last one a comment of
\* a tick that was not read, and the run has returned
C27_Witness ==
    /\ num_samples = 3
    /\ drop_slow_samples
    /\ Len(output) = 3
    /\ Len(readLog) = 2
    /\ output[3].kind = "too_late"
    /\ pc = "done" /\ stop = "exhausted"

\* configure has put *OPC? on the wire
OpcIssued == \E i \in 1..Len(Segment) : Segment[i] = "*OPC?"

(* C29: configure returns Ok only after it has sent *OPC?, as the last     *)
(* line and after the whole batch, and has read the answer "1" to it and   *)
(* nothing else; any other answer makes it return the error "Unexpected    *)
(* result from instrument for operation condition", a failure to send or   *)
(* to receive makes it return that failure.  *OPC? is sent only when the   *)
(* error query before it, the one after the batch (after the clear step    *)
(* for an empty batch), was answered with no error.                        *)
C29_OperationComplete ==
    call = "configure" =>
        LET n == Len(configs)
            q == IF n = 0 THEN 0 ELSE 1
        IN  /\ d_pc = "idle" =>
                  /\ ret = OkReturn
                  /\ OpcIssued
                  /\ Len(Answers) = 2 + q
                  /\ Answers[2 + q] = <<"1">>
            /\ OpcIssued =>
                  /\ Len(Segment) = 3 + n + q
                  /\ Segment[Len(Segment)] = "*OPC?"
                  /\ Segment[Len(Segment) - 1] = "SYST:ERR?"
                  /\ \A i \in 1..n : Segment[2 + i] = configs[i]
                  /\ Len(Answers) >= 1 + q
                  /\ \A i \in 1..(1 + q) : ReportsNoError(Answers[i])
                  /\ d_pc \in {"opc_recv", "idle", "failed"}
                  /\ (d_pc = "failed" /\ Len(Answers) = 1 + q) =>
                        /\ ret.kind = "Err" /\ ret.why = "receive"
                        /\ ret.msg = "Waiting for operation condition on instrument failed"
                  /\ (Len(Answers) = 2 + q /\ Answers[2 + q] # <<"1">>) =>
                        /\ d_pc = "failed"
                        /\ ret.kind = "Err" /\ ret.why = "opc"
                        /\ ret.msg = "Unexpected result from instrument for operation condition"
            /\ (d_pc = "failed" /\ ret.why = "device") => ~OpcIssued
            /\ (d_pc = "failed" /\ ret.why = "parse") => ~OpcIssued
            /\ d_pc = "opc_send" =>
                  /\ ~OpcIssued
                  /\ Len(Answers) = 1 + q
                  /\ ReportsNoError(Answers[1 + q])

\* after a batch of three commands without error the device answered *OPC?
\* with "1 ": configure has failed
C29_Witness ==
    /\ call = "configure"
    /\ Len(configs) = 3
    /\ OpcIssued
    /\ Len(Answers) = 3
    /\ Answers[3] = <<"1", " ">>
    /\ d_pc = "failed" /\ ret.why = "opc"

\* the device operations main has called
Ops == 1..Len(m_ops)
\* the calls of close among them
Closes == {i \in Ops : m_ops[i].op = "close"}
\* the reads among them
TimedReads == {i \in Ops : m_ops[i].op = "timed_read"}

(* C21: once connected the connection is Open or Closed, and Closed        *)
(* exactly when close has been called; every operation, close included, is *)
(* called on an Open connection, close at most once and as the last        *)
(* operation.  A main that returns Ok has called close exactly once, after *)
(* its last read; a main that returns an error from anything but close     *)
(* itself has not called close and leaves the connection as it was.        *)
C21_ClosedOnceAtTheEnd ==
    /\ dmm \in {"none", "Open", "Closed"}
    /\ dmm = "none" <=> m_ops = <<>>
    /\ dmm = "Closed" <=> Closes # {}
    /\ \A i \in Ops :
          /\ m_ops[i].op = "connect" <=> i = 1
          /\ i > 1 => m_ops[i].dmm = "Open"
          /\ m_ops[i].op = "close" => i = Len(m_ops)
    /\ Cardinality(Closes) <= 1
    /\ m_result.kind = "Ok" =>
          /\ m_pc = "done"
          /\ Cardinality(Closes) = 1
          /\ \A r \in TimedReads : \A c \in Closes : r < c
          /\ Cardinality(TimedReads) = Len(m_log)
    /\ (m_result.kind \in {"Err", "panic"} /\ m_result.why # "close") =>
          /\ Closes = {}
          /\ dmm # "Closed"
    /\ (m_result.kind = "Err" /\ m_result.why = "close") => Closes # {}

\* a run of two reads stopped by the signal: main has returned Ok and close
\* was its last operation, right after the second read
C21_Witness ==
    /\ m_result.kind = "Ok"
    /\ m_term
    /\ Len(m_log) = 2
    /\ Len(m_ops) >= 2
    /\ m_ops[Len(m_ops)].op = "close"
    /\ m_ops[Len(m_ops) - 1].op = "timed_read"
    /\ dmm = "Closed"

\* run of app.rs is the program under way
InRun == m_pc = "rest"

PeriodNotPositive(c) == c.interval <= 0 \/ (c.rate # <<>> /\ c.rate[1] <= 0)

(* C22 as stated: Cli::validate returns an error for every configuration   *)
(* whose sample period is not > 0 (zero or negative interval, zero or      *)
(* negative rate) and for every configuration whose sample count is 0; a   *)
(* configuration it accepts with the sample count unset runs unbounded.    *)
C22_AsClaimed ==
    validated.kind # "called" =>
        /\ PeriodNotPositive(cli) => validated.kind = "Err"
        /\ cli.num_samples = 0 => validated.kind = "Err"
        /\ (validated.kind = "Ok" /\ cli.num_samples = None /\ c_count.kind = "Ok")
              => c_count.n = U32_MAX

====
